---- MODULE Spec2Model ----
(***************************************************************************)
(* Alert evaluation and notification engine of the AR.IO gateway           *)
(* monitoring bot: the TelegramBot dispatcher (cooldown, global and        *)
(* category mutes, alert history), the resource check (sustained CPU,      *)
(* counter-reset-safe error rate) and the observer check (epoch            *)
(* transitions, report deadline, selection history).                       *)
(*                                                                         *)
(* Time is Date.now() in units of 1000 ms.  Every duration of the source   *)
(* is a multiple of 1000 ms and is written here divided by 1000.           *)
(***************************************************************************)
EXTENDS Integers, Sequences, FiniteSets, TLC

VARIABLES
  now,                      \* Date.now()
  telegram,                 \* TelegramBot fields
  db,                       \* metricsDb config table: mute_state, category_mutes
  cpuHistory,               \* MonitoringBot.cpuHistory
  errorRateHistory,         \* MonitoringBot.errorRateHistory
  previousMetrics,          \* MonitoringBot.previousMetrics
  observerSelectionHistory, \* MonitoringBot.observerSelectionHistory
  lastObserverCheck,        \* MonitoringBot.lastObserverCheck
  gateway,                  \* the metrics provider: the gateway's Prometheus counters
  chain,                    \* the epoch provider: what the AR.IO network reports
  lastSent,                 \* history: per alert identity, the last notification-channel call
  calls,                    \* history: the dispatch calls made by the last handler run
  run,                      \* history: what the last check run observed
  runtimeConfig,            \* RuntimeConfigManager.runtimeConfig: thresholds, feature flags, intervals
  currentPreset,            \* RuntimeConfigManager.currentPreset
  channelUp,                \* the notification channel: whether sendMessage resolves
  storeUp,                  \* the store: whether a write to the config table succeeds
  timers,                   \* MonitoringBot timers: armed timeouts and intervals, runs in flight
  monitors                  \* the other monitors' fields: SSL, health, ArNS resolution, network

vars == <<now, telegram, db, cpuHistory, errorRateHistory, previousMetrics,
          observerSelectionHistory, lastObserverCheck, gateway, chain, lastSent,
          calls, run, runtimeConfig, currentPreset, monitors, channelUp, storeUp, timers>>

(***************************************************************************)
(* Bounds of the model.                                                    *)
(***************************************************************************)
StartTime == 1700000000
MuteHorizon == 300
CooldownHorizon == 1200
MaxCpuChecks == 7
MaxCpuSamples == 5
MaxSslChecks == 3
MaxHealthChecks == 4
MaxErrorChecks == 5
MaxWindowChecks == 14
MaxWindowSamples == 3
MaxConfigChecks == 2
MaxChannelChecks == 3
ReportHorizon == 1123200
ShutdownHorizon == 172800
AveragesHorizon == 172800
MaxSamples == 2
MaxObserverChecks == 5
MaxSelectionChecks == 6
MaxInterleaved == 3
MaxOverlapRuns == 3
MaxOverlapTicks == 2
MaxNetworkChecks == 3
MaxArnsRuns == 3
MuteMenuHorizon == 1800
InterleaveHorizon == 600
MaxPushPolls == 22
MaxPushChecks == 13
RestartHorizon == 3600
MaxGapChecks == 5

(***************************************************************************)
(* Optional values (undefined / null) and maps.                            *)
(***************************************************************************)
None == <<>>
Some(v) == <<v>>
Truthy(opt) == opt # None /\ opt[1] # 0

Get(f, k, d) == IF k \in DOMAIN f THEN f[k] ELSE d
Put(f, k, v) == [x \in (DOMAIN f) \cup {k} |-> IF x = k THEN v ELSE f[x]]
Remove(f, ks) == [x \in (DOMAIN f) \ ks |-> f[x]]
EmptyMap == [x \in {} |-> 0]

(***************************************************************************)
(* Configuration.                                                          *)
(***************************************************************************)
AlertCooldown == 600
HistoryCap == 100
Indefinite == 315360000
CpuThreshold == 80
CpuDurationMinutes == 5
MemoryThreshold == 90
DiskThreshold == 85
ResponseTimeThreshold == 2000
LatencyThreshold == 1000
BlockSyncLagThreshold == 100
ArnsCacheHitRateThreshold == 50
ErrorRateThreshold == 5
ErrorRateMinRequests == 100
NotSelectedEpochsThreshold == 5
LowObserverWeightThreshold == 5
SelectionHistoryCap == 20
ResourceCheckInterval == 60
HealthCheckInterval == 60
SslCheckInterval == 86400
ObserverCheckInterval == 300
NetworkCheckInterval == 600
EpochLength == 86400
TenMinutes == 10 * 60
ChangeAlertCooldown == 300
OneDay == 86400
OneWeek == 604800
StartupDelay == 10
DailySummaryTime == 9 * 3600
WeeklySummaryTime == 9 * 3600
WeeklySummaryDay == 1

(***************************************************************************)
(* Alert categories offered by the Mute button of each dispatch path.      *)
(***************************************************************************)
ResourceCategory(type) ==
  CASE type = "cpu" -> "resource_cpu"
    [] type = "memory" -> "resource_memory"
    [] type = "disk" -> "resource_disk"
    [] type = "response_time" -> "resource_response_time"
    [] type = "latency" -> "resource_latency"

PerformanceCategory(type) ==
  CASE type = "block_sync" -> "performance_block_sync"
    [] type = "arns_cache" -> "performance_arns_cache"
    [] type = "error_rate" -> "performance_error_rate"

ObserverCategory(type) ==
  CASE type = "report_failed" -> "observer_report_failed"
    [] type = "not_selected" -> "observer_not_selected"
    [] type = "low_weight" -> "observer_low_weight"

\* sendAlert: const muteCategory = category || type
MuteCategory(type, category) ==
  IF category # None /\ category[1] # "" THEN category[1] ELSE type

(***************************************************************************)
(* The mute conditions as the operator sees them, evaluated at time t.     *)
(***************************************************************************)
GlobalMuteInEffect(tg, t) ==
  tg.isMuted /\ tg.muteUntil # None /\ t < tg.muteUntil[1]

CategoryMuteInEffect(tg, c, t) ==
  c \in DOMAIN tg.categoryMutes /\ t < tg.categoryMutes[c]

CategoryMuteExpired(tg, c, t) ==
  c \in DOMAIN tg.categoryMutes /\ t >= tg.categoryMutes[c]

(***************************************************************************)
(* A dispatch works on w = [tg, db, lastSent, calls]: the TelegramBot      *)
(* fields, the persisted config rows, and the record of what was asked of  *)
(* the notification channel.  Record(...) notes one dispatch call with its *)
(* outcome and the mute conditions that held when it was made.             *)
(***************************************************************************)
Record(w, t, op, kind, severity, value, threshold, message, tag, ident, outcome) ==
  [op |-> op, kind |-> kind, severity |-> severity, value |-> value,
   threshold |-> threshold, message |-> message, tag |-> tag, ident |-> ident,
   time |-> t, outcome |-> outcome,
   globalMuted |-> GlobalMuteInEffect(w.tg, t),
   tagMuted |-> CategoryMuteInEffect(w.tg, tag, t),
   tagExpired |-> CategoryMuteExpired(w.tg, tag, t),
   prevSent |-> Get(w.lastSent, ident, None),
   historyBefore |-> w.tg.alertHistory,
   stampsBefore |-> w.tg.lastAlertTime,
   recorded |-> FALSE,
   stamped |-> FALSE]

\* await this.bot.telegram.sendMessage(...) inside try/catch: the call
\* resolves, or it rejects and the catch logs the error.
sendMessage(w) == IF w.channelUp THEN "sent" ELSE "failed"

\* Note(w, rec) closes the call in the state w it left behind: whether it
\* changed alertHistory (recorded) or lastAlertTime (stamped).
Note(w, rec) ==
  LET done == [rec EXCEPT !.recorded = w.tg.alertHistory # rec.historyBefore,
                          !.stamped = w.tg.lastAlertTime # rec.stampsBefore]
  IN  [w EXCEPT !.calls = Append(@, done),
                !.lastSent = IF rec.outcome = "sent"
                             THEN Put(@, rec.ident, Some([time |-> rec.time, value |-> rec.value]))
                             ELSE @]

\* now - lastAlert < config.monitoring.alertCooldown
InCooldown(t, lastAlert) == t - lastAlert < AlertCooldown

persistMuteState_Skipped(w) == w

\* metricsDb.saveMuteState(isMuted, muteUntil): muteUntil || null
\* stmt.run throws when the write fails; nothing around the call catches it.
persistMuteState(w) ==
  IF w.storeUp
  THEN [w EXCEPT !.db.mute_state =
          Some([isMuted |-> w.tg.isMuted,
                muteUntil |-> IF Truthy(w.tg.muteUntil) THEN w.tg.muteUntil ELSE None])]
  ELSE [w EXCEPT !.thrown = TRUE]

\* metricsDb.saveCategoryMutes(Object.fromEntries(categoryMutes))
persistCategoryMutes(w) ==
  IF w.storeUp
  THEN [w EXCEPT !.db.category_mutes = Some(w.tg.categoryMutes)]
  ELSE [w EXCEPT !.thrown = TRUE]

\* restoreMuteState: saved.isMuted, saved.muteUntil ?? undefined
restoreMuteState(tg, store) ==
  IF store.mute_state # None
  THEN [tg EXCEPT !.isMuted = store.mute_state[1].isMuted,
                  !.muteUntil = store.mute_state[1].muteUntil]
  ELSE tg

\* restoreCategoryMutes: new Map(Object.entries(saved))
restoreCategoryMutes(tg, store) ==
  IF store.category_mutes # None
  THEN [tg EXCEPT !.categoryMutes = store.category_mutes[1]]
  ELSE tg

\* this.isMuted && this.muteUntil && now < this.muteUntil
GloballyMuted(tg, t) ==
  tg.isMuted /\ Truthy(tg.muteUntil) /\ t < tg.muteUntil[1]

\* category && this.categoryMutes.has(category) && now < categoryMuteTime
CategoryMuted(tg, category, t) ==
  /\ category # None
  /\ category[1] # ""
  /\ category[1] \in DOMAIN tg.categoryMutes
  /\ t < tg.categoryMutes[category[1]]

\* the category mutes the expiry sweep deletes: now >= muteTime
ExpiredCategories(tg, t) ==
  {c \in DOMAIN tg.categoryMutes : t >= tg.categoryMutes[c]}

\* message.split('\n')[0] || type, a message being its sequence of lines
FirstLine(message, type) ==
  IF Len(message) > 0 /\ message[1] # "" THEN message[1] ELSE type

\* alertKey of sendAlert: `${type}:${message}`
AlertKey(type, message) == <<type, message>>

ResourceAlertKey_ByValue(type, value, threshold) == <<"resource", type, value>>

\* alertKey of sendResourceAlert: `resource:${type}:${threshold}`
ResourceAlertKey(type, value, threshold) == <<"resource", type, threshold>>

\* value >= threshold * 1.2 ? 'CRITICAL' : 'WARNING'
ResourceSeverity(value, threshold) ==
  IF value * 10 >= threshold * 12 THEN "critical" ELSE "warning"

sendAlert_NoExpiry(w, t, type, message, category) ==
  LET alertKey == AlertKey(type, message)
      lastAlert == Get(w.tg.lastAlertTime, alertKey, 0)
      rec(outcome) == Record(w, t, "sendAlert", type, type, 0, 0, message,
                             MuteCategory(type, category), alertKey, outcome)
      pushed == Append(w.tg.alertHistory,
                       [timestamp |-> t, type |-> FirstLine(message, type),
                        message |-> message, severity |-> type])
      w3 == [w EXCEPT !.tg.alertHistory = IF Len(pushed) > HistoryCap THEN Tail(pushed) ELSE pushed,
                      !.tg.lastAlertTime = Put(@, alertKey, t)]
  IN  IF InCooldown(t, lastAlert) THEN Note(w, rec("cooldown"))
      ELSE IF GloballyMuted(w3.tg, t) THEN Note(w3, rec("globalMute"))
      ELSE IF category # None /\ category[1] \in DOMAIN w3.tg.categoryMutes
           THEN Note(w3, rec("categoryMute"))
      ELSE Note(w3, rec(sendMessage(w)))

sendAlert_RecordFirst(w, t, type, message, category) ==
  LET alertKey == AlertKey(type, message)
      lastAlert == Get(w.tg.lastAlertTime, alertKey, 0)
      rec(outcome) == Record(w, t, "sendAlert", type, type, 0, 0, message,
                             MuteCategory(type, category), alertKey, outcome)
      w1 == IF Truthy(w.tg.muteUntil) /\ t >= w.tg.muteUntil[1]
            THEN persistMuteState([w EXCEPT !.tg.isMuted = FALSE, !.tg.muteUntil = None])
            ELSE w
      expired == ExpiredCategories(w1.tg, t)
      w2 == IF expired # {}
            THEN persistCategoryMutes([w1 EXCEPT !.tg.categoryMutes = Remove(@, expired)])
            ELSE w1
      pushed == Append(w2.tg.alertHistory,
                       [timestamp |-> t, type |-> FirstLine(message, type),
                        message |-> message, severity |-> type])
      w3 == [w2 EXCEPT !.tg.alertHistory = IF Len(pushed) > HistoryCap THEN Tail(pushed) ELSE pushed,
                       !.tg.lastAlertTime = Put(@, alertKey, t)]
  IN  IF InCooldown(t, lastAlert) THEN Note(w3, rec("cooldown"))
      ELSE IF GloballyMuted(w3.tg, t) THEN Note(w3, rec("globalMute"))
      ELSE IF CategoryMuted(w3.tg, category, t) THEN Note(w3, rec("categoryMute"))
      ELSE Note(w3, rec(sendMessage(w)))

sendAlert(w, t, type, message, category) ==
  LET alertKey == AlertKey(type, message)
      lastAlert == Get(w.tg.lastAlertTime, alertKey, 0)
      rec(outcome) == Record(w, t, "sendAlert", type, type, 0, 0, message,
                             MuteCategory(type, category), alertKey, outcome)
      \* Clear mute if expired
      w1 == IF Truthy(w.tg.muteUntil) /\ t >= w.tg.muteUntil[1]
            THEN persistMuteState([w EXCEPT !.tg.isMuted = FALSE, !.tg.muteUntil = None])
            ELSE w
      \* Clear expired category mutes
      expired == ExpiredCategories(w1.tg, t)
      w2 == IF expired # {} /\ ~w1.thrown
            THEN persistCategoryMutes([w1 EXCEPT !.tg.categoryMutes = Remove(@, expired)])
            ELSE w1
      pushed == Append(w2.tg.alertHistory,
                       [timestamp |-> t, type |-> FirstLine(message, type),
                        message |-> message, severity |-> type])
      w3 == [w2 EXCEPT !.tg.alertHistory = IF Len(pushed) > HistoryCap THEN Tail(pushed) ELSE pushed,
                       !.tg.lastAlertTime = Put(@, alertKey, t)]
  IN  IF w2.thrown THEN Note(w2, rec("threw"))
      ELSE IF InCooldown(t, lastAlert) THEN Note(w2, rec("cooldown"))
      ELSE IF GloballyMuted(w3.tg, t) THEN Note(w3, rec("globalMute"))
      ELSE IF CategoryMuted(w3.tg, category, t) THEN Note(w3, rec("categoryMute"))
      ELSE Note(w3, rec(sendMessage(w)))

sendResourceAlert(w, t, type, value, threshold) ==
  LET alertKey == ResourceAlertKey(type, value, threshold)
      lastAlert == Get(w.tg.lastAlertTime, alertKey, 0)
      rec(outcome) == Record(w, t, "sendResourceAlert", type, ResourceSeverity(value, threshold),
                             value, threshold, <<>>, ResourceCategory(type),
                             <<"resource", type, threshold>>, outcome)
  IN  IF InCooldown(t, lastAlert) THEN Note(w, rec("cooldown"))
      ELSE Note([w EXCEPT !.tg.lastAlertTime = Put(@, alertKey, t)], rec(sendMessage(w)))

sendPerformanceAlert(w, t, type, details) ==
  LET alertKey == <<"performance", type>>
      lastAlert == Get(w.tg.lastAlertTime, alertKey, 0)
      rec(outcome) == Record(w, t, "sendPerformanceAlert", type, "warning",
                             details.current, details.threshold, details,
                             PerformanceCategory(type), alertKey, outcome)
  IN  IF InCooldown(t, lastAlert) THEN Note(w, rec("cooldown"))
      ELSE Note([w EXCEPT !.tg.lastAlertTime = Put(@, alertKey, t)], rec(sendMessage(w)))

NoDetails == [value |-> None, threshold |-> None, epochIndex |-> None, additional |-> None]

sendObserverAlert(w, t, type, details) ==
  LET alertKey == <<"observer", type>>
      lastAlert == Get(w.tg.lastAlertTime, alertKey, 0)
      rec(outcome) == Record(w, t, "sendObserverAlert", type,
                             IF type = "report_failed" THEN "critical" ELSE "warning",
                             details.value, details.threshold, details,
                             ObserverCategory(type), alertKey, outcome)
  IN  IF InCooldown(t, lastAlert) THEN Note(w, rec("cooldown"))
      ELSE Note([w EXCEPT !.tg.lastAlertTime = Put(@, alertKey, t)], rec(sendMessage(w)))

\* eventType of sendGatewayChangeAlert: a change of any type whose status
\* entry reads '... -> left' is a 'left' event.  change.statusTarget is the
\* lower-cased text after the arrow of the 'status:' entry, if any.
GatewayEventType(change) ==
  IF change.type = "left" \/ change.statusTarget = Some("left") THEN "left" ELSE change.type

sendGatewayChangeAlert(w, t, change) ==
  LET eventType == GatewayEventType(change)
      alertKey == <<"gateway", eventType, change.address>>
      lastAlert == Get(w.tg.lastAlertTime, alertKey, 0)
      rec(outcome) == Record(w, t, "sendGatewayChangeAlert", eventType, "info", 0, 0,
                             <<>>, "", alertKey, outcome)
  IN  IF t - lastAlert < ChangeAlertCooldown THEN Note(w, rec("cooldown"))
      ELSE Note([w EXCEPT !.tg.lastAlertTime = Put(@, alertKey, t)], rec(sendMessage(w)))

sendArnsChangeAlert(w, t, change) ==
  LET alertKey == <<"arns", change.type, change.name>>
      lastAlert == Get(w.tg.lastAlertTime, alertKey, 0)
      rec(outcome) == Record(w, t, "sendArnsChangeAlert", change.type, "info", 0, 0,
                             <<>>, "", alertKey, outcome)
  IN  IF t - lastAlert < ChangeAlertCooldown THEN Note(w, rec("cooldown"))
      ELSE Note([w EXCEPT !.tg.lastAlertTime = Put(@, alertKey, t)], rec(sendMessage(w)))

\* The alerts a check raises, as the calls it awaits one after another:
\* each request names the dispatch path and carries its arguments.
AlertRequest(type, message, category) ==
  [op |-> "sendAlert", type |-> type, message |-> message, category |-> category]

ResourceRequest(type, value, threshold) ==
  [op |-> "sendResourceAlert", type |-> type, value |-> value, threshold |-> threshold]

PerformanceRequest(type, details) ==
  [op |-> "sendPerformanceAlert", type |-> type, details |-> details]

ObserverRequest(type, details) ==
  [op |-> "sendObserverAlert", type |-> type, details |-> details]

\* A dispatch whose stamp is not yet set when it suspends.
Dispatch_StampAfterSend(w, t, req) ==
  LET done == CASE req.op = "sendAlert" -> sendAlert(w, t, req.type, req.message, req.category)
                [] req.op = "sendResourceAlert" ->
                     sendResourceAlert(w, t, req.type, req.value, req.threshold)
                [] req.op = "sendPerformanceAlert" -> sendPerformanceAlert(w, t, req.type, req.details)
                [] req.op = "sendObserverAlert" -> sendObserverAlert(w, t, req.type, req.details)
  IN  [done EXCEPT !.tg.lastAlertTime = w.tg.lastAlertTime]

Dispatch(w, t, req) ==
  CASE req.op = "sendAlert" -> sendAlert(w, t, req.type, req.message, req.category)
    [] req.op = "sendResourceAlert" -> sendResourceAlert(w, t, req.type, req.value, req.threshold)
    [] req.op = "sendPerformanceAlert" -> sendPerformanceAlert(w, t, req.type, req.details)
    [] req.op = "sendObserverAlert" -> sendObserverAlert(w, t, req.type, req.details)

\* The awaits run in order; a dispatch that rejects ends the check's try
\* block, so the requests after it are not made.
RECURSIVE DispatchAll(_, _, _)
DispatchAll(w, t, reqs) ==
  IF reqs = <<>> \/ w.thrown THEN w
  ELSE LET first == Dispatch(w, t, Head(reqs))
       IN  DispatchAll(first, t, Tail(reqs))

(***************************************************************************)
(* Mute registry operations.                                               *)
(***************************************************************************)
\* setMute: the switch over the duration text
MuteMs(duration) ==
  CASE duration = "1h" -> Some(60 * 60)
    [] duration = "6h" -> Some(6 * 60 * 60)
    [] duration = "24h" -> Some(24 * 60 * 60)
    [] OTHER -> None

setMute(w, t, duration) ==
  IF duration = "unmute"
  THEN persistMuteState([w EXCEPT !.tg.isMuted = FALSE, !.tg.muteUntil = None])
  ELSE IF MuteMs(duration) = None
  THEN w
  ELSE persistMuteState([w EXCEPT !.tg.isMuted = TRUE,
                                  !.tg.muteUntil = Some(t + MuteMs(duration)[1])])

handleUnmute(w) ==
  persistMuteState([w EXCEPT !.tg.isMuted = FALSE, !.tg.muteUntil = None])

\* action mute_cat:<category>:<duration>, duration = [infinite, ms]
muteCat(w, t, category, duration) ==
  persistCategoryMutes(
    [w EXCEPT !.tg.categoryMutes =
       Put(@, category, IF duration.infinite THEN t + Indefinite ELSE t + duration.ms)])

\* action unmute_cat:<category>
unmuteCat(w, category) ==
  persistCategoryMutes([w EXCEPT !.tg.categoryMutes = Remove(@, {category})])

\* action unmute_all_cats
unmuteAllCats(w) ==
  persistCategoryMutes([w EXCEPT !.tg.categoryMutes = EmptyMap])

(***************************************************************************)
(* State after construction: a fresh store, nothing restored.              *)
(***************************************************************************)
InitTelegram ==
  [lastAlertTime |-> EmptyMap, alertHistory |-> <<>>, isMuted |-> FALSE,
   muteUntil |-> None, categoryMutes |-> EmptyMap]

\* The store: the config rows mute_state and category_mutes, and the alerts
\* table, which only insertAlert writes.
InitDb ==
  [mute_state |-> None, category_mutes |-> None, runtime_config |-> None,
   alerts |-> <<>>, metrics |-> {},
   network_snapshots |-> [gateway |-> EmptyMap, arns |-> EmptyMap]]

\* The timers before start(): nothing armed, nothing running.  pending is
\* the set of fire times of the timeouts that are armed; the Timer fields
\* are the handles the bot keeps.
InitTimers ==
  [started |-> FALSE, stopped |-> FALSE,
   startupDelay |-> None, observerCheckTimer |-> FALSE, metricsRecordingTimer |-> FALSE,
   pendingDaily |-> {}, dailySummaryTimer |-> None, dailyRunning |-> None,
   pendingWeekly |-> {}, weeklySummaryTimer |-> None, weeklyRunning |-> None,
   lateRun |-> FALSE, lastReport |-> None]

\* The fields the other monitors start with.
InitMonitors ==
  [lastSSLWarning |-> None, previousHealth |-> None, inFlight |-> {},
   observerRuns |-> {},
   network |-> [lastGatewaySnapshot |-> EmptyMap, lastArnsSnapshot |-> EmptyMap,
                gatewayInitialized |-> FALSE, arnsInitialized |-> FALSE],
   arnsResolutionTimer |-> None, arnsPending |-> {}, arnsRuns |-> 0, arnsPath |-> None]

InitGateway == [errors |-> 10, requests |-> 1000]

InitChain ==
  [epochIndex |-> 0, endTimestamp |-> StartTime + EpochLength, selected |-> TRUE,
   submitted |-> FALSE, weight |-> 7]

\* The values of the three presets (alertCooldown in units of 1000 ms).
PRESETS ==
  [relaxed |->
     [cpuThreshold |-> 90, cpuDurationMinutes |-> 10, memoryThreshold |-> 95,
      diskThreshold |-> 90, responseTimeThreshold |-> 10000, latencyThreshold |-> 2000,
      errorRateThreshold |-> 10, errorRateMinRequests |-> 50,
      blockSyncLagThreshold |-> 2000, arnsCacheHitRateThreshold |-> 30,
      alertCooldown |-> 1800, monitorArnsResolution |-> FALSE],
   balanced |->
     [cpuThreshold |-> 80, cpuDurationMinutes |-> 5, memoryThreshold |-> 90,
      diskThreshold |-> 85, responseTimeThreshold |-> 5000, latencyThreshold |-> 1000,
      errorRateThreshold |-> 5, errorRateMinRequests |-> 100,
      blockSyncLagThreshold |-> 1000, arnsCacheHitRateThreshold |-> 50,
      alertCooldown |-> 600, monitorArnsResolution |-> FALSE],
   strict |->
     [cpuThreshold |-> 70, cpuDurationMinutes |-> 3, memoryThreshold |-> 85,
      diskThreshold |-> 80, responseTimeThreshold |-> 3000, latencyThreshold |-> 500,
      errorRateThreshold |-> 2, errorRateMinRequests |-> 150,
      blockSyncLagThreshold |-> 500, arnsCacheHitRateThreshold |-> 60,
      alertCooldown |-> 300, monitorArnsResolution |-> TRUE]]

ConfigPreset == DOMAIN PRESETS

\* RuntimeConfigManager.loadDefaultConfig: the values of the static
\* configuration, with nothing stored in the database yet (intervals in
\* units of 1000 ms).
loadDefaultConfig ==
  [cpuThreshold |-> CpuThreshold, cpuDurationMinutes |-> CpuDurationMinutes,
   memoryThreshold |-> MemoryThreshold, diskThreshold |-> DiskThreshold,
   responseTimeThreshold |-> ResponseTimeThreshold, latencyThreshold |-> LatencyThreshold,
   errorRateThreshold |-> ErrorRateThreshold, errorRateMinRequests |-> ErrorRateMinRequests,
   blockSyncLagThreshold |-> BlockSyncLagThreshold,
   arnsCacheHitRateThreshold |-> ArnsCacheHitRateThreshold,
   monitorGatewayRegistry |-> FALSE, monitorArnsActivity |-> FALSE,
   monitorSslCertificate |-> TRUE, monitorArnsResolution |-> FALSE,
   enableDailySummary |-> TRUE, enableWeeklySummary |-> TRUE,
   healthCheckInterval |-> HealthCheckInterval,
   observerCheckInterval |-> ObserverCheckInterval,
   resourceCheckInterval |-> ResourceCheckInterval,
   alertCooldown |-> AlertCooldown]

\* A setPreset that builds the configuration afresh: the preset's values
\* over the defaults (what reset followed by the preset would give).
setPreset_OverDefaults(cfg, preset) ==
  [key \in DOMAIN cfg |->
     IF key \in DOMAIN PRESETS[preset] THEN PRESETS[preset][key] ELSE loadDefaultConfig[key]]

\* RuntimeConfigManager.setPreset: Object.assign of the preset's values.
setPreset(cfg, preset) ==
  [key \in DOMAIN cfg |->
     IF key \in DOMAIN PRESETS[preset] THEN PRESETS[preset][key] ELSE cfg[key]]

\* RuntimeConfigManager.set.
setConfig(cfg, key, value) == [cfg EXCEPT ![key] = value]

\* The keys of RuntimeConfig that are declared boolean.
FeatureKeys ==
  {"monitorGatewayRegistry", "monitorArnsActivity", "monitorSslCertificate",
   "monitorArnsResolution", "enableDailySummary", "enableWeeklySummary"}

\* RuntimeConfigManager.toggle: only a boolean key is negated.
toggle(cfg, key) ==
  IF key \in FeatureKeys THEN setConfig(cfg, key, ~cfg[key]) ELSE cfg

\* RuntimeConfigManager.saveToDatabase and MetricsDatabase.saveConfig: the
\* configuration and the preset name go into one row; a failed write is
\* logged and nothing else happens.
saveToDatabase(store, up, cfg, preset) ==
  IF up THEN [store EXCEPT !.runtime_config = Some([config |-> cfg, preset |-> preset])]
  ELSE store

Init ==
  /\ now = StartTime
  /\ telegram = InitTelegram
  /\ db = InitDb
  /\ cpuHistory = <<>>
  /\ errorRateHistory = <<>>
  /\ previousMetrics = None
  /\ observerSelectionHistory = <<>>
  /\ lastObserverCheck = None
  /\ gateway = InitGateway
  /\ chain = InitChain
  /\ lastSent = EmptyMap
  /\ calls = <<>>
  /\ run = None
  /\ runtimeConfig = loadDefaultConfig
  /\ currentPreset = "balanced"
  /\ channelUp = TRUE
  /\ storeUp = TRUE
  /\ timers = InitTimers
  /\ monitors = InitMonitors

W == [tg |-> telegram, db |-> db, lastSent |-> lastSent, calls |-> <<>>,
      channelUp |-> channelUp, storeUp |-> storeUp, thrown |-> FALSE]

Commit(w) ==
  /\ telegram' = w.tg
  /\ db' = w.db
  /\ lastSent' = w.lastSent
  /\ calls' = w.calls

resourceVars == <<cpuHistory, errorRateHistory, previousMetrics, gateway>>
observerVars == <<observerSelectionHistory, lastObserverCheck, chain>>
monitorVars == <<resourceVars, observerVars, run, runtimeConfig, currentPreset, monitors, channelUp, storeUp, timers>>

(***************************************************************************)
(* The dispatcher and the mute registry driven directly: alerts raised by  *)
(* any check, and the operator's mute commands, interleaved with time.     *)
(***************************************************************************)
TickSteps == {300}
DSeverities == {"critical"}
DMessages == {<<"Core service is DOWN", "Error: No response">>}
DCategories == {None, Some("service_health")}
DResourceTypes == {"cpu"}
DValues == {81, 95, 96}
DThresholds == {80}
DPerformanceTypes == {"block_sync"}
DObserverTypes == {"low_weight"}
DMuteDurations == {"1h"}
DMuteCategories == {"service_health", "resource_cpu"}
DCategoryDurations == {[infinite |-> FALSE, ms |-> 300]}

Advance(horizon) ==
  \E d \in TickSteps :
    /\ now + d <= StartTime + horizon
    /\ now' = now + d
    /\ UNCHANGED <<telegram, db, lastSent, calls, monitorVars>>

Tick == Advance(MuteHorizon)

SendAlert ==
  \E type \in DSeverities, message \in DMessages, category \in DCategories :
    /\ Commit(sendAlert(W, now, type, message, category))
    /\ UNCHANGED <<now, monitorVars>>

SendResourceAlert ==
  \E type \in DResourceTypes, value \in DValues, threshold \in DThresholds :
    /\ Commit(sendResourceAlert(W, now, type, value, threshold))
    /\ UNCHANGED <<now, monitorVars>>

SendPerformanceAlert ==
  \E type \in DPerformanceTypes :
    /\ Commit(sendPerformanceAlert(W, now, type, [current |-> 150, threshold |-> 100]))
    /\ UNCHANGED <<now, monitorVars>>

SendObserverAlert ==
  \E type \in DObserverTypes :
    /\ Commit(sendObserverAlert(W, now, type,
                [NoDetails EXCEPT !.value = Some(3), !.threshold = Some(LowObserverWeightThreshold)]))
    /\ UNCHANGED <<now, monitorVars>>

SetMute ==
  \E duration \in DMuteDurations :
    /\ Commit(setMute(W, now, duration))
    /\ UNCHANGED <<now, monitorVars>>

HandleUnmute ==
  /\ Commit(handleUnmute(W))
  /\ UNCHANGED <<now, monitorVars>>

MuteCat ==
  \E category \in DMuteCategories, duration \in DCategoryDurations :
    /\ Commit(muteCat(W, now, category, duration))
    /\ UNCHANGED <<now, monitorVars>>

UnmuteCat ==
  \E category \in DMuteCategories :
    /\ Commit(unmuteCat(W, category))
    /\ UNCHANGED <<now, monitorVars>>

UnmuteAllCats ==
  /\ Commit(unmuteAllCats(W))
  /\ UNCHANGED <<now, monitorVars>>

NextDispatch ==
  \/ Tick
  \/ SendAlert
  \/ SendResourceAlert
  \/ SendPerformanceAlert
  \/ SendObserverAlert
  \/ SetMute
  \/ HandleUnmute
  \/ MuteCat
  \/ UnmuteCat
  \/ UnmuteAllCats

SpecDispatch == Init /\ [][NextDispatch]_vars

(***************************************************************************)
(* The Mute button under a sent alert: sendAlert attaches the callback     *)
(* mute_menu:<category || type>, and the duration the operator then picks  *)
(* runs the mute_cat action on that key.                                   *)
(***************************************************************************)
DButtonMessages == {<<"Core service is DOWN">>, <<"Observer service is DOWN">>}

SendButtonAlert ==
  \E type \in DSeverities, message \in DButtonMessages, category \in DCategories :
    /\ Commit(sendAlert(W, now, type, message, category))
    /\ UNCHANGED <<now, monitorVars>>

\* The operator presses Mute under an alert the last dispatch sent and
\* picks a duration.
PressMuteButton ==
  \E i \in 1..Len(calls), duration \in DCategoryDurations :
    /\ calls[i].op = "sendAlert"
    /\ calls[i].outcome = "sent"
    /\ Commit(muteCat(W, now, calls[i].tag, duration))
    /\ UNCHANGED <<now, monitorVars>>

NextMuteButton ==
  \/ Tick
  \/ SendButtonAlert
  \/ PressMuteButton

SpecMuteButton == Init /\ [][NextMuteButton]_vars

(***************************************************************************)
(* The four dispatch paths alone, over several cooldown windows.           *)
(***************************************************************************)
CooldownTick == Advance(CooldownHorizon)

NextCooldown ==
  \/ CooldownTick
  \/ SendAlert
  \/ SendResourceAlert
  \/ SendPerformanceAlert
  \/ SendObserverAlert

SpecCooldown == Init /\ [][NextCooldown]_vars

(***************************************************************************)
(* The network check's change alerts next to the resource and observer     *)
(* alerts, over several cooldown windows.                                  *)
(***************************************************************************)
DGatewayChanges ==
  {[type |-> "updated", address |-> "gw1", statusTarget |-> Some("left")],
   [type |-> "left", address |-> "gw1", statusTarget |-> None]}
DArnsChanges == {[type |-> "lease", name |-> "ardrive"]}

SendGatewayChangeAlert ==
  \E change \in DGatewayChanges :
    /\ Commit(sendGatewayChangeAlert(W, now, change))
    /\ UNCHANGED <<now, monitorVars>>

SendArnsChangeAlert ==
  \E change \in DArnsChanges :
    /\ Commit(sendArnsChangeAlert(W, now, change))
    /\ UNCHANGED <<now, monitorVars>>

NextChangeAlerts ==
  \/ CooldownTick
  \/ SendGatewayChangeAlert
  \/ SendArnsChangeAlert
  \/ SendResourceAlert
  \/ SendObserverAlert

SpecChangeAlerts == Init /\ [][NextChangeAlerts]_vars

(***************************************************************************)
(* The mute registry and sendAlert across process restarts, over one hour: *)
(* a restart constructs every object anew and restores the mutes from the  *)
(* store.                                                                  *)
(***************************************************************************)
\* new TelegramBot(): the field initialisers, then restoreMuteState() and
\* restoreCategoryMutes()
Constructed(store) == restoreCategoryMutes(restoreMuteState(InitTelegram, store), store)

\* sendAlertHistory: the alerts of the store followed by the in-memory ones
AlertHistoryShown(tg, store) == store.alerts \o tg.alertHistory

Restart ==
  /\ telegram' = Constructed(db)
  /\ calls' = <<>>
  /\ cpuHistory' = <<>>
  /\ errorRateHistory' = <<>>
  /\ previousMetrics' = None
  /\ observerSelectionHistory' = <<>>
  /\ lastObserverCheck' = None
  /\ UNCHANGED <<now, db, lastSent, gateway, chain, run, runtimeConfig, currentPreset, monitors, channelUp, storeUp, timers>>

HourTick ==
  /\ now + MuteMs("1h")[1] <= StartTime + RestartHorizon
  /\ now' = now + MuteMs("1h")[1]
  /\ UNCHANGED <<telegram, db, lastSent, calls, monitorVars>>

NextRestart ==
  \/ HourTick
  \/ SendAlert
  \/ SetMute
  \/ HandleUnmute
  \/ MuteCat
  \/ UnmuteCat
  \/ UnmuteAllCats
  \/ Restart

SpecRestart == Init /\ [][NextRestart]_vars

(***************************************************************************)
(* The mute registry while writes to the store may fail.                   *)
(***************************************************************************)
StoreChanges ==
  /\ storeUp' = ~storeUp
  /\ UNCHANGED <<now, telegram, db, lastSent, calls, resourceVars, observerVars, run,
                 runtimeConfig, currentPreset, monitors, channelUp, timers>>

NextStoreFailure ==
  \/ StoreChanges
  \/ HourTick
  \/ SendAlert
  \/ SetMute
  \/ HandleUnmute
  \/ MuteCat
  \/ UnmuteCat
  \/ UnmuteAllCats

SpecStoreFailure == Init /\ [][NextStoreFailure]_vars

(***************************************************************************)
(* The resource check (startResourceMonitoring.checkResources).            *)
(***************************************************************************)
NoMetrics ==
  [cpuUsagePercent |-> None, memoryUsagePercent |-> None, diskUsagePercent |-> None,
   averageResponseTimeMs |-> None, heightDifference |-> None,
   lastHeightImported |-> None, currentNetworkHeight |-> None,
   arnsCacheHitRate |-> None, arnsErrors |-> None, httpRequestsTotal |-> None,
   arnsResolutions |-> None]

\* fetchPrometheusMetrics: `x || undefined`
OrUndefined(x) == IF x = 0 THEN None ELSE Some(x)

\* previousMetrics.errors || 0
OrZero(opt) == IF Truthy(opt) THEN opt[1] ELSE 0

Max(a, b) == IF a >= b THEN a ELSE b

SumErrors(h) ==
  LET RECURSIVE sum(_)
      sum(i) == IF i = 0 THEN 0 ELSE sum(i - 1) + h[i].errors
  IN  sum(Len(h))

SumRequests(h) ==
  LET RECURSIVE sum(_)
      sum(i) == IF i = 0 THEN 0 ELSE sum(i - 1) + h[i].requests
  IN  sum(Len(h))

\* samplesInWindow: this.cpuHistory.filter(h => h.timestamp >= cutoffTime)
InCpuWindow(h, cutoffTime) == h.timestamp >= cutoffTime

\* A sustained-CPU rule that wants more samples in the window than the
\* duration has minutes.
cpuRule_OverDuration(history, t, cpu) ==
  LET pushed == Append(history, [value |-> cpu, timestamp |-> t])
      kept == SelectSeq(pushed, LAMBDA h : h.timestamp > t - TenMinutes)
      cutoffTime == t - CpuDurationMinutes * 60
      samplesInWindow == SelectSeq(kept, LAMBDA h : InCpuWindow(h, cutoffTime))
  IN  [history |-> kept,
       fires |-> /\ Len(samplesInWindow) > CpuDurationMinutes
                 /\ \A i \in DOMAIN samplesInWindow : samplesInWindow[i].value >= CpuThreshold
                 /\ cpu >= CpuThreshold]

\* A sustained-CPU rule that keeps every sample it was given.
cpuRule_KeepAll(history, t, cpu) ==
  LET pushed == Append(history, [value |-> cpu, timestamp |-> t])
      cutoffTime == t - CpuDurationMinutes * 60
      samplesInWindow == SelectSeq(pushed, LAMBDA h : InCpuWindow(h, cutoffTime))
  IN  [history |-> pushed,
       fires |-> /\ Len(samplesInWindow) >= CpuDurationMinutes
                 /\ \A i \in DOMAIN samplesInWindow : samplesInWindow[i].value >= CpuThreshold
                 /\ cpu >= CpuThreshold]

\* The sustained-CPU rule: returns the pruned history and whether it fires.
cpuRule(history, t, cpu) ==
  LET pushed == Append(history, [value |-> cpu, timestamp |-> t])
      tenMinutesAgo == t - TenMinutes
      kept == SelectSeq(pushed, LAMBDA h : h.timestamp > tenMinutesAgo)
      durationMs == CpuDurationMinutes * 60
      cutoffTime == t - durationMs
      recentHighCpu == SelectSeq(kept, LAMBDA h : InCpuWindow(h, cutoffTime) /\ h.value >= CpuThreshold)
      samplesInWindow == SelectSeq(kept, LAMBDA h : InCpuWindow(h, cutoffTime))
  IN  [history |-> kept,
       fires |-> /\ Len(samplesInWindow) >= CpuDurationMinutes
                 /\ Len(recentHighCpu) = Len(samplesInWindow)
                 /\ cpu >= CpuThreshold]

\* The sample the error-rate rule pushes for an interval with requestsDelta > 0.
ErrorSample(rawErrorsDelta, rawRequestsDelta, t) ==
  [errors |-> Max(rawErrorsDelta, 0), requests |-> Max(rawRequestsDelta, 0), timestamp |-> t]

\* An error-rate rule that never drops a sample from its window.
errorRateRule_NoPrune(history, previous, t, errors, requests) ==
  LET rawErrorsDelta == errors - OrZero(previous.errors)
      rawRequestsDelta == requests - OrZero(previous.totalRequests)
      pushed == Append(history, ErrorSample(rawErrorsDelta, rawRequestsDelta, t))
      aggregated == [errors |-> SumErrors(pushed), requests |-> SumRequests(pushed)]
  IN  IF rawRequestsDelta > 0
      THEN [history |-> pushed, aggregated |-> Some(aggregated),
            raw |-> Some([errors |-> rawErrorsDelta, requests |-> rawRequestsDelta]),
            fires |-> /\ aggregated.requests >= ErrorRateMinRequests
                      /\ aggregated.errors * 100 > ErrorRateThreshold * aggregated.requests]
      ELSE [history |-> history, aggregated |-> None,
            raw |-> Some([errors |-> rawErrorsDelta, requests |-> rawRequestsDelta]),
            fires |-> FALSE]

\* The error-rate rule: returns the window, the aggregate it computed (if
\* any) and whether it fires.
errorRateRule(history, previous, t, errors, requests) ==
  LET rawErrorsDelta == errors - OrZero(previous.errors)
      rawRequestsDelta == requests - OrZero(previous.totalRequests)
      cleared == IF rawErrorsDelta < 0 \/ rawRequestsDelta < 0 THEN <<>> ELSE history
      requestsDelta == Max(rawRequestsDelta, 0)
      pushed == Append(cleared, ErrorSample(rawErrorsDelta, rawRequestsDelta, t))
      windowStart == t - TenMinutes
      kept == SelectSeq(pushed, LAMBDA sample : sample.timestamp >= windowStart)
      aggregated == [errors |-> SumErrors(kept), requests |-> SumRequests(kept)]
  IN  IF requestsDelta > 0
      THEN [history |-> kept, aggregated |-> Some(aggregated),
            raw |-> Some([errors |-> rawErrorsDelta, requests |-> rawRequestsDelta]),
            fires |-> /\ aggregated.requests >= ErrorRateMinRequests
                      /\ aggregated.requests > 0
                      /\ aggregated.errors * 100 > ErrorRateThreshold * aggregated.requests]
      ELSE [history |-> cleared, aggregated |-> None,
            raw |-> Some([errors |-> rawErrorsDelta, requests |-> rawRequestsDelta]),
            fires |-> FALSE]

\* One run of checkResources at time t on the fetched metrics: the rules
\* are evaluated in the order of the source and their alerts dispatched in
\* that order.
checkResources(w, t, metrics) ==
  LET cpu == IF metrics.cpuUsagePercent # None
             THEN cpuRule(cpuHistory, t, metrics.cpuUsagePercent[1])
             ELSE [history |-> cpuHistory, fires |-> FALSE]
      err == IF previousMetrics # None /\ metrics.arnsErrors # None /\ metrics.httpRequestsTotal # None
             THEN errorRateRule(errorRateHistory, previousMetrics[1], t,
                                metrics.arnsErrors[1], metrics.httpRequestsTotal[1])
             ELSE [history |-> errorRateHistory, aggregated |-> None, raw |-> None, fires |-> FALSE]
      alerts ==
        IF cpu.fires
        THEN <<ResourceRequest("cpu", metrics.cpuUsagePercent[1], CpuThreshold)>>
        ELSE <<>>
      memory ==
        IF metrics.memoryUsagePercent # None /\ metrics.memoryUsagePercent[1] >= MemoryThreshold
        THEN <<ResourceRequest("memory", metrics.memoryUsagePercent[1], MemoryThreshold)>>
        ELSE <<>>
      disk ==
        IF metrics.diskUsagePercent # None /\ metrics.diskUsagePercent[1] >= DiskThreshold
        THEN <<ResourceRequest("disk", metrics.diskUsagePercent[1], DiskThreshold)>>
        ELSE <<>>
      responseTime ==
        IF metrics.averageResponseTimeMs # None /\ metrics.averageResponseTimeMs[1] >= ResponseTimeThreshold
        THEN <<ResourceRequest("response_time", metrics.averageResponseTimeMs[1], ResponseTimeThreshold)>>
        ELSE <<>>
      blockSync ==
        IF metrics.heightDifference # None /\ metrics.heightDifference[1] > BlockSyncLagThreshold
        THEN <<PerformanceRequest("block_sync",
                 [current |-> metrics.heightDifference[1], threshold |-> BlockSyncLagThreshold])>>
        ELSE <<>>
      arnsCache ==
        IF metrics.arnsCacheHitRate # None /\ metrics.arnsCacheHitRate[1] < ArnsCacheHitRateThreshold
        THEN <<PerformanceRequest("arns_cache",
                 [current |-> metrics.arnsCacheHitRate[1], threshold |-> ArnsCacheHitRateThreshold])>>
        ELSE <<>>
      errorRate ==
        IF err.fires
        THEN <<PerformanceRequest("error_rate",
                 [current |-> (err.aggregated[1].errors * 100) \div err.aggregated[1].requests,
                  threshold |-> ErrorRateThreshold,
                  errors |-> err.aggregated[1].errors,
                  requests |-> err.aggregated[1].requests])>>
        ELSE <<>>
  IN  [w |-> DispatchAll(w, t, alerts \o memory \o disk \o responseTime \o blockSync
                                 \o arnsCache \o errorRate),
       cpuHistory |-> cpu.history, errorRateHistory |-> err.history,
       aggregated |-> err.aggregated, raw |-> err.raw,
       previousMetrics |-> Some([timestamp |-> t,
                                 blockHeight |-> metrics.lastHeightImported,
                                 arnsResolutions |-> metrics.arnsResolutions,
                                 errors |-> metrics.arnsErrors,
                                 totalRequests |-> metrics.httpRequestsTotal])]

\* What a run of the check did, for the properties: the readings taken so
\* far, the raw counter deltas of the intervals so far, the aggregate the
\* error-rate rule computed in this run, and the runtime configuration in
\* force when it ran.
ResourceRun(r, t, metrics) ==
  [check |-> "resources", time |-> t, metrics |-> metrics,
   readings |-> IF run = None THEN <<metrics.cpuUsagePercent>>
                ELSE Append(run.readings, metrics.cpuUsagePercent),
   deltas |-> IF r.raw = None THEN (IF run = None THEN <<>> ELSE run.deltas)
              ELSE Append(IF run = None THEN <<>> ELSE run.deltas, r.raw[1]),
   raw |-> r.raw, aggregated |-> r.aggregated,
   previous |-> IF run = None THEN None ELSE Some(run.metrics),
   config |-> runtimeConfig]

\* The timer fires, the check runs on the fetched metrics, and the next
\* firing is one interval later.
CheckResources(metrics) ==
  LET r == checkResources(W, now, metrics)
  IN  /\ Commit(r.w)
      /\ cpuHistory' = r.cpuHistory
      /\ errorRateHistory' = r.errorRateHistory
      /\ previousMetrics' = r.previousMetrics
      /\ run' = ResourceRun(r, now, metrics)
      /\ now' = now + ResourceCheckInterval

(***************************************************************************)
(* The resource check on a stream of one-per-minute CPU readings.          *)
(***************************************************************************)
CpuReadings == {70, 85}

CheckCpu ==
  \E cpu \in CpuReadings :
    /\ now < StartTime + MaxCpuChecks * ResourceCheckInterval
    /\ CheckResources([NoMetrics EXCEPT !.cpuUsagePercent = Some(cpu)])
    /\ UNCHANGED <<gateway, observerVars, runtimeConfig, currentPreset, monitors, channelUp, storeUp, timers>>

SpecCpu == Init /\ [][CheckCpu]_vars

\* The first checks after start-up, one per minute, on readings around and
\* above the threshold.
DCpuSamples == {70, 84, 85, 86, 90, 91}

CheckCpuSample ==
  \E cpu \in DCpuSamples :
    /\ now < StartTime + MaxCpuSamples * ResourceCheckInterval
    /\ CheckResources([NoMetrics EXCEPT !.cpuUsagePercent = Some(cpu)])
    /\ UNCHANGED <<gateway, observerVars, runtimeConfig, currentPreset, monitors, channelUp, storeUp, timers>>

SpecCpuSamples == Init /\ [][CheckCpuSample]_vars

(***************************************************************************)
(* The resource check on the gateway's error and request counters, which   *)
(* move by a delta between two checks; a negative delta is a restart.       *)
(***************************************************************************)
ErrorDeltas == {-2, 3, 4, 5}
RequestDeltas == {-100, 0, 100}

CheckErrorRate ==
  /\ now < StartTime + MaxErrorChecks * ResourceCheckInterval
  /\ CheckResources([NoMetrics EXCEPT !.arnsErrors = OrUndefined(gateway.errors),
                                      !.httpRequestsTotal = OrUndefined(gateway.requests)])
  /\ \E de \in ErrorDeltas, dr \in RequestDeltas :
       gateway' = [errors |-> gateway.errors + de, requests |-> gateway.requests + dr]
  /\ UNCHANGED <<observerVars, runtimeConfig, currentPreset, monitors, channelUp, storeUp, timers>>

SpecErrorRate == Init /\ [][CheckErrorRate]_vars

\* A quarter of an hour of checks on counters that stand still most of the
\* time: a busy interval with many errors, a quiet one with few, or none.
DWindowDeltas == { <<8, 100>>, <<2, 60>>, <<0, 0>> }

CheckErrorWindow ==
  /\ now < StartTime + MaxWindowChecks * ResourceCheckInterval
  /\ CheckResources([NoMetrics EXCEPT !.arnsErrors = OrUndefined(gateway.errors),
                                      !.httpRequestsTotal = OrUndefined(gateway.requests)])
  /\ \E delta \in DWindowDeltas :
       /\ delta[2] > 0 => gateway.requests - InitGateway.requests < MaxWindowSamples * 60
       /\ gateway' = [errors |-> gateway.errors + delta[1], requests |-> gateway.requests + delta[2]]
  /\ UNCHANGED <<observerVars, runtimeConfig, currentPreset, monitors, channelUp, storeUp, timers>>

SpecErrorWindow == Init /\ [][CheckErrorWindow]_vars

(***************************************************************************)
(* The resource check when the metrics provider fails to deliver a         *)
(* counter in some cycles (getMetrics returns what it could fetch).        *)
(***************************************************************************)
GapErrorDeltas == {2, 6}
GapRequestDeltas == {100}

CheckErrorRateWithGaps ==
  /\ now < StartTime + MaxGapChecks * ResourceCheckInterval
  /\ \E errorsOk \in BOOLEAN, requestsOk \in BOOLEAN :
       CheckResources([NoMetrics EXCEPT
         !.arnsErrors = IF errorsOk THEN OrUndefined(gateway.errors) ELSE None,
         !.httpRequestsTotal = IF requestsOk THEN OrUndefined(gateway.requests) ELSE None])
  /\ \E de \in GapErrorDeltas, dr \in GapRequestDeltas :
       gateway' = [errors |-> gateway.errors + de, requests |-> gateway.requests + dr]
  /\ UNCHANGED <<observerVars, runtimeConfig, currentPreset, monitors, channelUp, storeUp, timers>>

SpecErrorGaps == Init /\ [][CheckErrorRateWithGaps]_vars

(***************************************************************************)
(* The thresholds changed at runtime (a preset applied from the settings   *)
(* menu, or one threshold set), followed by the checks that read           *)
(* thresholds: the resource check and the latency rule of the health       *)
(* check.                                                                  *)
(***************************************************************************)
\* The latency rule of checkHealth for the core service, which reads its
\* threshold from the runtime configuration.
checkLatency(w, t, cfg, responseTime) ==
  IF responseTime > cfg.latencyThreshold
  THEN DispatchAll(w, t, <<ResourceRequest("latency", responseTime, cfg.latencyThreshold)>>)
  ELSE w

\* handlePresetChange: the operator picks a preset in the settings menu.
\* No check runs, so calls and run keep describing the last check.
HandlePresetChange ==
  \E preset \in ConfigPreset :
    /\ runtimeConfig' = setPreset(runtimeConfig, preset)
    /\ currentPreset' = preset
    /\ db' = saveToDatabase(db, storeUp, runtimeConfig', currentPreset')
    /\ UNCHANGED <<now, telegram, lastSent, calls, resourceVars, observerVars, run,
                   monitors, channelUp, storeUp, timers>>

\* runtimeConfig.set of one threshold.
DThresholdSettings ==
  { <<"memoryThreshold", 85>>, <<"diskThreshold", 80>>, <<"latencyThreshold", 500>> }

SetThreshold ==
  \E setting \in DThresholdSettings :
    /\ runtimeConfig' = setConfig(runtimeConfig, setting[1], setting[2])
    /\ db' = saveToDatabase(db, storeUp, runtimeConfig', currentPreset)
    /\ UNCHANGED <<now, telegram, lastSent, calls, resourceVars, observerVars, run,
                   monitors, currentPreset, channelUp, storeUp, timers>>

\* Readings between the strict and the default thresholds, and above both.
DConfigMetrics ==
  { [NoMetrics EXCEPT !.memoryUsagePercent = Some(m), !.diskUsagePercent = Some(d),
                      !.averageResponseTimeMs = Some(r), !.heightDifference = Some(h),
                      !.arnsCacheHitRate = Some(c)] :
      m \in {87, 92}, d \in {82}, r \in {2500}, h \in {600}, c \in {55} }

CheckConfiguredResources ==
  \E metrics \in DConfigMetrics :
    /\ now < StartTime + MaxConfigChecks * ResourceCheckInterval
    /\ CheckResources(metrics)
    /\ UNCHANGED <<gateway, observerVars, runtimeConfig, currentPreset, monitors, channelUp, storeUp, timers>>

\* What a run of the health check did, for the properties: the response
\* time it measured and the runtime configuration in force when it ran;
\* what the resource check has observed so far is kept.
HealthRun(t, responseTime) ==
  LET base == IF run = None
              THEN [metrics |-> NoMetrics, readings |-> <<>>, deltas |-> <<>>,
                    raw |-> None, aggregated |-> None, previous |-> None]
              ELSE run
  IN  [field \in DOMAIN base \cup {"check", "time", "responseTime", "config"} |->
         CASE field = "check" -> "health"
           [] field = "time" -> t
           [] field = "responseTime" -> responseTime
           [] field = "config" -> runtimeConfig
           [] OTHER -> base[field]]

DResponseTimes == {700, 1500}

CheckLatency ==
  \E responseTime \in DResponseTimes :
    /\ Commit(checkLatency(W, now, runtimeConfig, responseTime))
    /\ run' = HealthRun(now, responseTime)
    /\ UNCHANGED <<now, resourceVars, observerVars, runtimeConfig, currentPreset, monitors, channelUp, storeUp, timers>>

NextRuntimeConfig ==
  \/ HandlePresetChange
  \/ SetThreshold
  \/ CheckConfiguredResources
  \/ CheckLatency

SpecRuntimeConfig == Init /\ [][NextRuntimeConfig]_vars

(***************************************************************************)
(* The settings menu: presets, feature toggles and single thresholds.      *)
(***************************************************************************)
\* handleFeatureToggle: the buttons of the feature menu.
featureMap ==
  [gateway_registry |-> "monitorGatewayRegistry", arns_activity |-> "monitorArnsActivity",
   arns_resolution |-> "monitorArnsResolution", ssl_monitoring |-> "monitorSslCertificate",
   daily_reports |-> "enableDailySummary", weekly_reports |-> "enableWeeklySummary"]

HandleFeatureToggle ==
  \E feature \in DOMAIN featureMap :
    /\ runtimeConfig' = toggle(runtimeConfig, featureMap[feature])
    /\ db' = saveToDatabase(db, storeUp, runtimeConfig', currentPreset)
    /\ UNCHANGED <<now, telegram, lastSent, calls, resourceVars, observerVars, run,
                   monitors, currentPreset, channelUp, storeUp, timers>>

NextPresets ==
  \/ HandlePresetChange
  \/ HandleFeatureToggle
  \/ SetThreshold

SpecPresets == Init /\ [][NextPresets]_vars

(***************************************************************************)
(* The notification channel failing: sendMessage rejects while the channel *)
(* is down.  Alerts are raised directly and by a resource check whose      *)
(* readings cross two thresholds at once.                                  *)
(***************************************************************************)
ChannelChanges ==
  /\ channelUp' = ~channelUp
  /\ UNCHANGED <<now, telegram, db, lastSent, calls, resourceVars, observerVars, run,
                 runtimeConfig, currentPreset, monitors, storeUp, timers>>

DLoadedMetrics ==
  { [NoMetrics EXCEPT !.memoryUsagePercent = Some(92), !.diskUsagePercent = Some(d)] :
      d \in {70, 90} }

CheckLoadedResources ==
  \E metrics \in DLoadedMetrics :
    /\ now < StartTime + MaxChannelChecks * ResourceCheckInterval
    /\ CheckResources(metrics)
    /\ UNCHANGED <<gateway, observerVars, runtimeConfig, currentPreset, monitors, channelUp, storeUp, timers>>

NextChannel ==
  \/ ChannelChanges
  \/ SendAlert
  \/ SendResourceAlert
  \/ CheckLoadedResources

SpecChannel == Init /\ [][NextChannel]_vars

(***************************************************************************)
(* The observer check (ObserverMonitor and                                 *)
(* startObserverMonitoring.checkObserver).  Observer weights are in        *)
(* tenths.                                                                 *)
(***************************************************************************)
\* checkObserverStatus with the gateway address configured: what the SDK
\* reports of the chain, or the local report (or 0) when the SDK fails.
checkObserverStatus(c, sdkOk, observationsOk, localReport) ==
  LET fallbackEpoch == IF localReport # None /\ localReport[1].epochIndex # 0
                       THEN localReport[1].epochIndex ELSE 0
      fallbackEndTime == IF localReport # None THEN Some(localReport[1].epochEndTimestamp) ELSE None
  IN  IF sdkOk
      THEN [epochIndex |-> IF c.epochIndex # 0 THEN c.epochIndex ELSE fallbackEpoch,
            isSelectedAsObserver |-> c.selected,
            observerWeight |-> IF c.selected THEN Some(c.weight) ELSE None,
            epochEndTimestamp |-> IF c.endTimestamp # 0 THEN Some(c.endTimestamp) ELSE fallbackEndTime,
            hasSubmittedReport |-> Some(observationsOk /\ c.submitted)]
      ELSE [epochIndex |-> fallbackEpoch,
            isSelectedAsObserver |-> FALSE,
            observerWeight |-> None,
            epochEndTimestamp |-> fallbackEndTime,
            hasSubmittedReport |-> None]

\* getEpochStats(epochIndex): None when the fetch throws; a falsy index
\* fetches the current epoch.
getEpochStats(c, epochIndex, ok) ==
  IF ~ok THEN None
  ELSE Some([epochIndex |-> IF epochIndex # 0 THEN epochIndex ELSE c.epochIndex])

\* formatEpochChangeMessage: the header line; the summary lines follow.
formatEpochChangeMessage(event, stats) ==
  << "Epoch " \o ToString(stats.epochIndex) \o (IF event = "started" THEN " Started" ELSE " Ended"),
     "summary" >>

EpochDiffers_Always(last, status) == TRUE

\* !this.lastObserverCheck || this.lastObserverCheck.epochIndex !== status.epochIndex
EpochDiffers(last, status) ==
  last = None \/ last[1].epochIndex # status.epochIndex

\* this.observerSelectionHistory.slice(-n)
\* A slice that is the whole history.
LastN_Whole(h, n) == h

LastN(h, n) == IF Len(h) <= n THEN h ELSE SubSeq(h, Len(h) - n + 1, Len(h))

\* One run of checkObserver at time t.
checkObserver(w, t, c, status, prevStatsOk, curStatsOk) ==
  LET epochChanged == lastObserverCheck # None /\ status.epochIndex # lastObserverCheck[1].epochIndex
      previousStats == IF epochChanged
                       THEN getEpochStats(c, lastObserverCheck[1].epochIndex, prevStatsOk)
                       ELSE None
      ended ==
        IF epochChanged /\ previousStats # None
        THEN <<AlertRequest("info", formatEpochChangeMessage("ended", previousStats[1]), Some("epoch"))>>
        ELSE <<>>
      currentStats == IF epochChanged THEN getEpochStats(c, status.epochIndex, curStatsOk) ELSE None
      started ==
        IF epochChanged /\ currentStats # None
        THEN <<AlertRequest("info", formatEpochChangeMessage("started", currentStats[1]), Some("epoch"))>>
        ELSE <<>>
      unsubmitted == /\ status.isSelectedAsObserver
                     /\ ~(status.hasSubmittedReport # None /\ status.hasSubmittedReport[1])
      timeRemaining == IF Truthy(status.epochEndTimestamp) THEN status.epochEndTimestamp[1] - t ELSE 0
      hoursRemaining == timeRemaining \div 3600
      reportWarning ==
        IF unsubmitted /\ hoursRemaining < 12 /\ hoursRemaining > 0
        THEN <<AlertRequest("warning",
                 << "No observation report submitted!",
                    "Epoch: " \o ToString(status.epochIndex),
                    "Time remaining: " \o ToString(hoursRemaining) \o " hours" >>,
                 Some("observer_report"))>>
        ELSE <<>>
      reportFailed ==
        IF unsubmitted /\ hoursRemaining <= 0 /\ EpochDiffers(lastObserverCheck, status)
        THEN <<ObserverRequest("report_failed",
                 [NoDetails EXCEPT !.epochIndex = Some(status.epochIndex),
                                   !.additional = Some("Epoch deadline has passed")])>>
        ELSE <<>>
      appends == EpochDiffers(lastObserverCheck, status)
      pushed == Append(observerSelectionHistory,
                       [epochIndex |-> status.epochIndex,
                        selected |-> status.isSelectedAsObserver, timestamp |-> t])
      history == IF ~appends THEN observerSelectionHistory
                 ELSE IF Len(pushed) > SelectionHistoryCap THEN Tail(pushed) ELSE pushed
      recentHistory == LastN(history, NotSelectedEpochsThreshold)
      notSelected ==
        IF /\ appends
           /\ Len(recentHistory) >= NotSelectedEpochsThreshold
           /\ \A i \in 1..Len(recentHistory) : ~recentHistory[i].selected
        THEN <<ObserverRequest("not_selected",
                 [NoDetails EXCEPT !.value = Some(NotSelectedEpochsThreshold),
                                   !.threshold = Some(NotSelectedEpochsThreshold),
                                   !.additional = Some(<<recentHistory[1].epochIndex,
                                                         recentHistory[Len(recentHistory)].epochIndex>>)])>>
        ELSE <<>>
      lowWeight ==
        IF status.observerWeight # None /\ status.observerWeight[1] < LowObserverWeightThreshold
        THEN <<ObserverRequest("low_weight",
                 [NoDetails EXCEPT !.value = status.observerWeight,
                                   !.threshold = Some(LowObserverWeightThreshold)])>>
        ELSE <<>>
  IN  [w |-> DispatchAll(w, t, ended \o started \o reportWarning \o reportFailed
                                 \o notSelected \o lowWeight),
       history |-> history,
       lastObserverCheck |-> Some([epochIndex |-> status.epochIndex,
                                   wasSelected |-> status.isSelectedAsObserver,
                                   hadReport |-> status.hasSubmittedReport # None
                                                 /\ status.hasSubmittedReport[1]])]

\* What the runs of the observer check have seen so far, for the
\* properties: the epoch index the previous poll saw, the epochs polled
\* past their deadline while selected with no report, and the number of
\* 'report failed' alerts that reached the channel per epoch.
Unsubmitted(status) ==
  /\ status.isSelectedAsObserver
  /\ ~(status.hasSubmittedReport # None /\ status.hasSubmittedReport[1])

PastDeadline(status, t) ==
  status.epochEndTimestamp # None /\ t >= status.epochEndTimestamp[1]

FailedSent(cs, e) ==
  Cardinality({i \in 1..Len(cs) : /\ cs[i].op = "sendObserverAlert"
                                  /\ cs[i].kind = "report_failed"
                                  /\ cs[i].outcome = "sent"
                                  /\ cs[i].message.epochIndex = Some(e)})

\* The poll is in the window of the report warning: time remains to the
\* epoch's end, and less than twelve hours of it.
InWarningWindow(status, t) ==
  /\ status.epochEndTimestamp # None
  /\ t < status.epochEndTimestamp[1]
  /\ status.epochEndTimestamp[1] - t < 12 * 3600

WarningsSent(cs) ==
  Cardinality({i \in 1..Len(cs) : /\ cs[i].op = "sendAlert"
                                  /\ cs[i].kind = "warning"
                                  /\ cs[i].tag = "observer_report"
                                  /\ cs[i].outcome = "sent"})

\* The status is the one checkObserverStatus returns when the SDK failed:
\* only that return leaves hasSubmittedReport out.
FetchFailed(status) == status.hasSubmittedReport = None

ObserverRun(r, t, status) ==
  LET before == IF run = None
                THEN [n |-> 0, overdue |-> {}, failed |-> EmptyMap, due |-> {}, warned |-> EmptyMap,
                      lastGood |-> None]
                ELSE run
  IN  [check |-> "observer", time |-> t, status |-> status, n |-> before.n + 1,
       lastGood |-> IF FetchFailed(status) THEN before.lastGood ELSE Some(status.epochIndex),
       prevGood |-> before.lastGood,
       prevEpoch |-> IF run = None THEN None ELSE Some(run.status.epochIndex),
       overdue |-> before.overdue \cup
                   (IF Unsubmitted(status) /\ PastDeadline(status, t) THEN {status.epochIndex} ELSE {}),
       failed |-> Put(before.failed, status.epochIndex,
                      Get(before.failed, status.epochIndex, 0) + FailedSent(r.w.calls, status.epochIndex)),
       due |-> before.due \cup
               (IF Unsubmitted(status) /\ InWarningWindow(status, t) THEN {status.epochIndex} ELSE {}),
       warned |-> Put(before.warned, status.epochIndex,
                      Get(before.warned, status.epochIndex, 0) + WarningsSent(r.w.calls))]

\* Between two polls the chain stays as it is, receives the gateway's
\* report, or (once the epoch's end has passed) moves to the next epoch.
ChainNext(c, t) ==
  {c}
  \cup (IF c.selected /\ ~c.submitted THEN {[c EXCEPT !.submitted = TRUE]} ELSE {})
  \cup (IF t >= c.endTimestamp
        THEN {[c EXCEPT !.epochIndex = @ + 1, !.endTimestamp = @ + EpochLength,
                        !.selected = sel, !.submitted = FALSE] : sel \in BOOLEAN}
        ELSE {})

\* The timer fires, the check runs on the fetched status, and the next
\* firing is one polling interval later.
CheckObserver(step, sdkOk, prevStatsOk, curStatsOk) ==
  LET status == checkObserverStatus(chain, sdkOk, TRUE, None)
      r == checkObserver(W, now, chain, status, prevStatsOk, curStatsOk)
  IN  /\ Commit(r.w)
      /\ observerSelectionHistory' = r.history
      /\ lastObserverCheck' = r.lastObserverCheck
      /\ run' = ObserverRun(r, now, status)
      /\ now' = now + step
      /\ chain' \in ChainNext(chain, now + step)

(***************************************************************************)
(* The observer check polling the chain over a few epochs.                 *)
(***************************************************************************)
\* The polling interval is configuration (OBSERVER_CHECK_INTERVAL seconds);
\* the model polls after half an hour, eleven and a half hours or twelve
\* hours, so that a few polls reach an epoch's last hour, its deadline and
\* the epoch after it.
ObserverSteps == {1800, 41400, 43200}

PollObserver ==
  \E step \in ObserverSteps, sdkOk \in BOOLEAN, prevStatsOk \in BOOLEAN, curStatsOk \in BOOLEAN :
    /\ (IF run = None THEN 0 ELSE run.n) < MaxObserverChecks
    /\ CheckObserver(step, sdkOk, prevStatsOk, curStatsOk)
    /\ UNCHANGED <<resourceVars, runtimeConfig, currentPreset, monitors, channelUp, storeUp, timers>>

SpecObserver == Init /\ [][PollObserver]_vars

\* The observer check polling once per epoch length, so that every poll may
\* find a new epoch or, the chain being late, the same one.
PollSelection ==
  \E sdkOk \in BOOLEAN :
    /\ (IF run = None THEN 0 ELSE run.n) < MaxSelectionChecks
    /\ CheckObserver(EpochLength, sdkOk, TRUE, TRUE)
    /\ UNCHANGED <<resourceVars, runtimeConfig, currentPreset, monitors, channelUp, storeUp, timers>>

SpecSelection == Init /\ [][PollSelection]_vars

(***************************************************************************)
(* start(), stop() and the timers: the start-up delay and the interval of  *)
(* the observer check, the metrics recording interval, and the daily and   *)
(* weekly report timeouts that re-arm themselves after each run.  The      *)
(* local time zone is taken to be UTC.                                     *)
(***************************************************************************)
\* scheduledTime.setHours(hours, minutes, 0, 0) on today's date
TodayAt(t, timeOfDay) == (t \div OneDay) * OneDay + timeOfDay

\* now.getDay(): 0 = Sunday; 1 January 1970 was a Thursday
GetDay(t) == ((t \div OneDay) + 4) % 7

dailyScheduledTime_SameDay(t) == TodayAt(t, DailySummaryTime)

\* scheduleDailyReport.scheduleNext: today's time, or tomorrow's if it has passed
dailyScheduledTime(t) ==
  LET scheduledTime == TodayAt(t, DailySummaryTime)
  IN  IF t >= scheduledTime THEN scheduledTime + OneDay ELSE scheduledTime

\* scheduleWeeklyReport.scheduleNext
weeklyScheduledTime(t) ==
  LET scheduledTime == TodayAt(t, WeeklySummaryTime)
      difference == WeeklySummaryDay - GetDay(t)
      wrapped == IF difference < 0 THEN difference + 7 ELSE difference
      daysUntilTarget == IF wrapped = 0 /\ t >= scheduledTime THEN 7 ELSE wrapped
  IN  scheduledTime + daysUntilTarget * OneDay

\* this.dailySummaryTimer = setTimeout(..., msUntilReport)
armDaily(tm, t) ==
  [tm EXCEPT !.pendingDaily = @ \cup {dailyScheduledTime(t)},
             !.dailySummaryTimer = Some(dailyScheduledTime(t))]

armWeekly(tm, t) ==
  [tm EXCEPT !.pendingWeekly = @ \cup {weeklyScheduledTime(t)},
             !.weeklySummaryTimer = Some(weeklyScheduledTime(t))]

\* clearTimeout(handle): a timeout that already fired is not affected
clearTimeout(pending, handle) ==
  IF handle = None THEN pending ELSE pending \ {handle[1]}

\* metricsTracker.clearOldMetrics: deleteOlderThan(now - one week), vacuum
deleteOlderThan(store, timestamp) ==
  [store EXCEPT !.metrics = {m \in @ : ~(m.timestamp < timestamp)},
                !.alerts = SelectSeq(@, LAMBDA a : ~(a.timestamp < timestamp))]

clearOldMetrics_OneDay(store, t) == deleteOlderThan(store, t - OneDay)

clearOldMetrics(store, t) == deleteOlderThan(store, t - OneWeek)

\* every fire time of an armed timeout
Pending(tm) ==
  tm.pendingDaily \cup tm.pendingWeekly
    \cup (IF tm.startupDelay = None THEN {} ELSE {tm.startupDelay[1]})

\* start(): the monitors arm their timers
StartBot ==
  /\ ~timers.started
  /\ timers' = armWeekly(armDaily([timers EXCEPT !.started = TRUE,
                                                  !.startupDelay = Some(now + StartupDelay),
                                                  !.observerCheckTimer = TRUE,
                                                  !.metricsRecordingTimer = TRUE], now), now)
  /\ UNCHANGED <<now, telegram, db, lastSent, calls, resourceVars, observerVars, run,
                 runtimeConfig, currentPreset, monitors, channelUp, storeUp>>

\* stop(): every handle the bot keeps is cleared
Stop ==
  /\ timers.started
  /\ ~timers.stopped
  /\ timers' = [timers EXCEPT !.stopped = TRUE,
                              !.observerCheckTimer = FALSE,
                              !.metricsRecordingTimer = FALSE,
                              !.pendingDaily = clearTimeout(@, timers.dailySummaryTimer),
                              !.pendingWeekly = clearTimeout(@, timers.weeklySummaryTimer)]
  /\ UNCHANGED <<now, telegram, db, lastSent, calls, resourceVars, observerVars, run,
                 runtimeConfig, currentPreset, monitors, channelUp, storeUp>>

\* Time passes up to the next day or the next armed timeout, whichever
\* comes first (a timeout fires at its time); a report in flight takes no
\* time or one minute.
ReportRunTime == 60

\* the start times of the report runs in flight
RunsInFlight(tm) ==
  (IF tm.dailyRunning = None THEN {} ELSE {tm.dailyRunning[1]})
    \cup (IF tm.weeklyRunning = None THEN {} ELSE {tm.weeklyRunning[1]})

ClockTargets(tm, t) ==
  IF RunsInFlight(tm) = {}
  THEN {t + OneDay} \cup Pending(tm)
  ELSE {begun + ReportRunTime : begun \in RunsInFlight(tm)}

ClockAdvance(horizon) ==
  \E t \in ClockTargets(timers, now) :
    /\ timers.started
    /\ t > now
    /\ t <= StartTime + horizon
    /\ \A fire \in Pending(timers) : t <= fire
    /\ now' = t
    /\ UNCHANGED <<telegram, db, lastSent, calls, monitorVars>>

ReportClock == ClockAdvance(ReportHorizon)

ShutdownClock == ClockAdvance(ShutdownHorizon)

\* setTimeout(checkObserver, 10000) fires: the first observer check runs
StartupDelayFires ==
  /\ timers.startupDelay = Some(now)
  /\ CheckObserver(0, TRUE, TRUE, TRUE)
  /\ timers' = [timers EXCEPT !.startupDelay = None,
                              !.lateRun = @ \/ timers.stopped]
  /\ UNCHANGED <<resourceVars, runtimeConfig, currentPreset, monitors, channelUp, storeUp>>

\* The samples recordMetrics stores: the CPU reading with its timestamp.
\* The rollup does not look at the reading, the averages do.
DRollupCpu == {20}
DSampleCpu == {20, 60}

RecordMetrics(readings) ==
  \E cpu \in readings :
    /\ timers.metricsRecordingTimer
    /\ Cardinality(db.metrics) < MaxSamples
    /\ \A m \in db.metrics : m.timestamp # now
    /\ db' = [db EXCEPT !.metrics = @ \cup {[timestamp |-> now, cpuUsage |-> cpu]}]
    /\ timers' = [timers EXCEPT !.lateRun = @ \/ timers.stopped]
    /\ UNCHANGED <<now, telegram, lastSent, calls, resourceVars, observerVars, run,
                   runtimeConfig, currentPreset, monitors, channelUp, storeUp>>

\* The daily timeout fires once its time has come (a timeout armed with a
\* delay that is not positive fires at once) and sendDailyReport starts.
DailyFires ==
  \E fire \in timers.pendingDaily :
    /\ fire <= now
    /\ timers' = [timers EXCEPT !.pendingDaily = @ \ {fire},
                                !.dailyRunning = Some(now),
                                !.lateRun = @ \/ timers.stopped]
    /\ UNCHANGED <<now, telegram, db, lastSent, calls, resourceVars, observerVars, run,
                   runtimeConfig, currentPreset, monitors, channelUp, storeUp>>

\* sendDailyReport returns, having sent the summary or logged its failure,
\* and scheduleNext arms the next timeout.
DailyCompletes ==
  \E ok \in BOOLEAN :
    /\ timers.dailyRunning # None
    /\ timers' = LET armed == armDaily([timers EXCEPT !.dailyRunning = None], now)
                 IN  [armed EXCEPT !.lastReport =
                        Some([kind |-> "daily", begun |-> timers.dailyRunning[1],
                              completed |-> now, ok |-> ok, armed |-> armed.pendingDaily])]
    /\ UNCHANGED <<now, telegram, db, lastSent, calls, resourceVars, observerVars, run,
                   runtimeConfig, currentPreset, monitors, channelUp, storeUp>>

WeeklyFires ==
  \E fire \in timers.pendingWeekly :
    /\ fire <= now
    /\ timers' = [timers EXCEPT !.pendingWeekly = @ \ {fire},
                                !.weeklyRunning = Some(now),
                                !.lateRun = @ \/ timers.stopped]
    /\ UNCHANGED <<now, telegram, db, lastSent, calls, resourceVars, observerVars, run,
                   runtimeConfig, currentPreset, monitors, channelUp, storeUp>>

\* sendWeeklyReport returns: when the summary was produced the old records
\* are pruned; either way scheduleNext arms the next timeout.
WeeklyCompletes ==
  \E ok \in BOOLEAN :
    /\ timers.weeklyRunning # None
    /\ db' = IF ok THEN clearOldMetrics(db, now) ELSE db
    /\ timers' = LET armed == armWeekly([timers EXCEPT !.weeklyRunning = None], now)
                 IN  [armed EXCEPT !.lastReport =
                        Some([kind |-> "weekly", begun |-> timers.weeklyRunning[1],
                              completed |-> now, ok |-> ok, armed |-> armed.pendingWeekly,
                              removed |-> IF ok THEN db.metrics \ clearOldMetrics(db, now).metrics
                                          ELSE {}])]
    /\ UNCHANGED <<now, telegram, lastSent, calls, resourceVars, observerVars, run,
                   runtimeConfig, currentPreset, monitors, channelUp, storeUp>>

RecordRollupSample == RecordMetrics(DRollupCpu)

RecordSample == RecordMetrics(DSampleCpu)

NextReports ==
  \/ StartBot
  \/ ReportClock
  \/ StartupDelayFires
  \/ RecordRollupSample
  \/ DailyFires
  \/ DailyCompletes
  \/ WeeklyFires
  \/ WeeklyCompletes

SpecReports == Init /\ [][NextReports]_vars

\* The first two days with a stop() at any moment.
NextShutdown ==
  \/ StartBot
  \/ Stop
  \/ ShutdownClock
  \/ StartupDelayFires
  \/ RecordRollupSample
  \/ DailyFires
  \/ DailyCompletes

SpecShutdown == Init /\ [][NextShutdown]_vars

(***************************************************************************)
(* The per-day aggregates of the store, queried while samples are          *)
(* recorded over a few days.                                               *)
(***************************************************************************)
RECURSIVE SumCpu(_)
SumCpu(samples) ==
  IF samples = {} THEN 0
  ELSE LET m == CHOOSE x \in samples : TRUE
       IN  m.cpuUsage + SumCpu(samples \ {m})

\* One pass of the loop of getDailyAverages for index i: the rows with
\* dayStart <= timestamp < dayEnd, their AVG(cpu_usage) || 0, and the day
\* label date.toISOString().split('T')[0] as the number of the UTC day.
DailyAverageRow(store, t, i) ==
  LET dayStart == t - i * OneDay
      dayEnd == dayStart + OneDay
      rows == {m \in store.metrics : m.timestamp >= dayStart /\ m.timestamp < dayEnd}
  IN  [day |-> dayStart \div OneDay,
       cpu |-> IF rows = {} THEN 0 ELSE SumCpu(rows) \div Cardinality(rows),
       rows |-> rows]

\* getDailyAverages(days): i runs from days - 1 down to 0
getDailyAverages(store, t, days) ==
  [k \in 1..days |-> DailyAverageRow(store, t, days - k)]

DDays == {2, 7}

AveragesClock == ClockAdvance(AveragesHorizon)

\* A summary asks the store for the daily averages, some time after the
\* start-up checks have run.
QueryDailyAverages ==
  \E days \in DDays :
    /\ timers.started
    /\ timers.startupDelay = None
    /\ run' = [check |-> "dailyAverages", time |-> now, days |-> days,
               stored |-> db.metrics, averages |-> getDailyAverages(db, now, days)]
    /\ calls' = <<>>
    /\ UNCHANGED <<now, telegram, db, lastSent, resourceVars, observerVars,
                   runtimeConfig, currentPreset, monitors, channelUp, storeUp, timers>>

NextAverages ==
  \/ StartBot
  \/ AveragesClock
  \/ StartupDelayFires
  \/ RecordSample
  \/ DailyFires
  \/ DailyCompletes
  \/ QueryDailyAverages

SpecAverages == Init /\ [][NextAverages]_vars

(***************************************************************************)
(* The SSL certificate check, once a day.                                  *)
(***************************************************************************)
\* SSLMonitor.getWarningLevel
getWarningLevel(daysRemaining) ==
  IF daysRemaining <= 1 THEN "critical"
  ELSE IF daysRemaining <= 7 THEN "warning"
  ELSE IF daysRemaining <= 30 THEN "info"
  ELSE "ok"

\* The first line of the alert of a warning level.
SslTitle(level) ==
  CASE level = "critical" -> "SSL Certificate Expiring SOON!"
    [] level = "warning" -> "SSL Certificate Expiring Soon"
    [] level = "info" -> "SSL Certificate Renewal Reminder"

\* checkSSL: returns the world and lastSSLWarning. A dispatch that rejects
\* ends the try block before lastSSLWarning is assigned.
checkSSL(w, t, lastSSLWarning, cert) ==
  LET warningLevel == getWarningLevel(cert.daysRemaining)
      errorKey == IF cert.error = None THEN None ELSE Some("ssl_error:" \o cert.error[1])
      reqs == IF cert.error # None
              THEN IF lastSSLWarning # errorKey
                   THEN <<AlertRequest("warning",
                                       <<"SSL Certificate Check Failed", cert.error[1]>>,
                                       Some("ssl_certificate"))>>
                   ELSE <<>>
              ELSE IF warningLevel # "ok" /\ lastSSLWarning # Some(warningLevel)
                   THEN <<AlertRequest(warningLevel,
                                       <<SslTitle(warningLevel), ToString(cert.daysRemaining)>>,
                                       Some("ssl_certificate"))>>
                   ELSE <<>>
      after == DispatchAll(w, t, reqs)
      assigned == IF cert.error # None THEN errorKey
                  ELSE IF warningLevel = "ok" THEN None
                  ELSE Some(warningLevel)
  IN  [w |-> after,
       lastSSLWarning |-> IF after.thrown \/ (reqs = <<>> /\ ~(cert.error = None /\ warningLevel = "ok"))
                          THEN lastSSLWarning ELSE assigned]

\* Certificates the endpoint may present: days left around every boundary,
\* or no answer.
DCertificates ==
  { [error |-> None, daysRemaining |-> d] : d \in {1, 5, 7, 20, 30, 45} }
    \cup { [error |-> Some("Connection timeout"), daysRemaining |-> 0] }

CheckSSL ==
  \E cert \in DCertificates :
    LET r == checkSSL(W, now, monitors.lastSSLWarning, cert)
    IN  /\ now < StartTime + MaxSslChecks * SslCheckInterval
        /\ Commit(r.w)
        /\ monitors' = [monitors EXCEPT !.lastSSLWarning = r.lastSSLWarning]
        /\ run' = [check |-> "ssl", time |-> now, cert |-> cert,
                   before |-> monitors.lastSSLWarning]
        /\ now' = now + SslCheckInterval
        /\ UNCHANGED <<resourceVars, observerVars, runtimeConfig, currentPreset,
                       channelUp, storeUp, timers>>

SpecSsl == Init /\ [][CheckSSL]_vars

(***************************************************************************)
(* The health check of the core and the observer service.                  *)
(***************************************************************************)
Services == {"core", "observer"}

ServiceName(service) == IF service = "core" THEN "Core" ELSE "Observer"

\* A status alert that looks at the present state only: DOWN on every check
\* that finds the service unhealthy.
StatusChangeRequests_Level(previousHealth, health, service) ==
  IF health[service].isHealthy THEN <<>>
  ELSE <<AlertRequest("critical",
                      <<ServiceName(service) \o " service is DOWN", "No response",
                        ToString(health[service].responseTime)>>,
                      Some("service_health"))>>

\* The alert of a status change of one service, if there is one.
StatusChangeRequests(previousHealth, health, service) ==
  IF previousHealth = None \/ previousHealth[1][service] = health[service].isHealthy THEN <<>>
  ELSE IF ~health[service].isHealthy
       THEN <<AlertRequest("critical",
                           <<ServiceName(service) \o " service is DOWN", "No response",
                             ToString(health[service].responseTime)>>,
                           Some("service_health"))>>
       ELSE <<AlertRequest("info",
                           <<ServiceName(service) \o " service is back UP",
                             ToString(health[service].responseTime)>>,
                           Some("service_health"))>>

\* The latency alert of one healthy service, if it is slow.
LatencyRequests(cfg, health, service) ==
  IF health[service].isHealthy /\ health[service].responseTime > cfg.latencyThreshold
  THEN <<ResourceRequest("latency", health[service].responseTime, cfg.latencyThreshold)>>
  ELSE <<>>

\* checkHealth: returns the world and previousHealth. A dispatch that
\* rejects ends the try block before previousHealth is assigned.
checkHealth(w, t, cfg, previousHealth, health) ==
  LET reqs == StatusChangeRequests(previousHealth, health, "core")
                \o StatusChangeRequests(previousHealth, health, "observer")
                \o LatencyRequests(cfg, health, "core")
                \o LatencyRequests(cfg, health, "observer")
      after == DispatchAll(w, t, reqs)
  IN  [w |-> after,
       previousHealth |-> IF after.thrown THEN previousHealth
                          ELSE Some([core |-> health.core.isHealthy,
                                     observer |-> health.observer.isHealthy])]

\* What HealthMonitor.checkHealth may return: each service up or down, the
\* core fast or slow.
DHealth ==
  { [core |-> [isHealthy |-> c, responseTime |-> r],
     observer |-> [isHealthy |-> o, responseTime |-> 700]] :
      c \in BOOLEAN, o \in BOOLEAN, r \in {700, 1500} }

CheckHealth ==
  \E health \in DHealth :
    LET r == checkHealth(W, now, runtimeConfig, monitors.previousHealth, health)
    IN  /\ now < StartTime + MaxHealthChecks * HealthCheckInterval
        /\ Commit(r.w)
        /\ monitors' = [monitors EXCEPT !.previousHealth = r.previousHealth]
        /\ run' = [check |-> "checkHealth", time |-> now, health |-> health,
                   completed |-> ~r.w.thrown,
                   lastCompleted |-> IF run = None THEN None
                                     ELSE IF run.completed THEN Some(run.health)
                                     ELSE run.lastCompleted]
        /\ now' = now + HealthCheckInterval
        /\ UNCHANGED <<resourceVars, observerVars, runtimeConfig, currentPreset,
                       channelUp, storeUp, timers>>

SpecHealth == Init /\ [][CheckHealth]_vars

(***************************************************************************)
(* The three sliding windows filled over a long run: the observer polled   *)
(* once per epoch for three weeks, then the resource check every minute on *)
(* a gateway that answers or does not.                                     *)
(***************************************************************************)
\* What a run left in the windows, for the properties: the windows before
\* the run and whether the run pushed into each.
WindowRun(t, pushedCpu, pushedError, pushedSelection) ==
  [check |-> "windows", time |-> t,
   pushedCpu |-> pushedCpu, pushedError |-> pushedError, pushedSelection |-> pushedSelection,
   cpuBefore |-> cpuHistory, errorBefore |-> errorRateHistory,
   selectionBefore |-> Len(observerSelectionHistory)]

\* The observer check finds the next epoch at every poll, the gateway not
\* selected in it.
PollNextEpoch ==
  LET status == checkObserverStatus(chain, TRUE, TRUE, None)
      r == checkObserver(W, now, chain, status, TRUE, TRUE)
  IN  /\ cpuHistory = <<>> /\ previousMetrics = None
      /\ chain.epochIndex < MaxPushPolls
      /\ Commit(r.w)
      /\ observerSelectionHistory' = r.history
      /\ lastObserverCheck' = r.lastObserverCheck
      /\ run' = WindowRun(now, FALSE, FALSE, EpochDiffers(lastObserverCheck, status))
      /\ now' = now + EpochLength
      /\ chain' = [chain EXCEPT !.epochIndex = @ + 1, !.endTimestamp = @ + EpochLength,
                                !.selected = FALSE, !.submitted = FALSE]
      /\ UNCHANGED <<resourceVars, runtimeConfig, currentPreset, monitors, channelUp,
                     storeUp, timers>>

\* The resource check on the metrics of a gateway that answered, or on the
\* empty metrics getMetrics returns when it did not.
CheckGatewayOrNothing ==
  \E answered \in BOOLEAN :
    LET metrics == IF answered
                   THEN [NoMetrics EXCEPT !.cpuUsagePercent = Some(85),
                                          !.arnsErrors = OrUndefined(gateway.errors),
                                          !.httpRequestsTotal = OrUndefined(gateway.requests)]
                   ELSE NoMetrics
        r == checkResources(W, now, metrics)
    IN  /\ chain.epochIndex = MaxPushPolls
        /\ gateway.requests - InitGateway.requests < MaxPushChecks * 60
        /\ Commit(r.w)
        /\ cpuHistory' = r.cpuHistory
        /\ errorRateHistory' = r.errorRateHistory
        /\ previousMetrics' = r.previousMetrics
        /\ run' = WindowRun(now, metrics.cpuUsagePercent # None,
                            r.raw # None /\ r.raw[1].requests > 0, FALSE)
        /\ now' = now + ResourceCheckInterval
        /\ gateway' = [errors |-> gateway.errors + 2, requests |-> gateway.requests + 60]
        /\ UNCHANGED <<observerVars, runtimeConfig, currentPreset, monitors, channelUp,
                       storeUp, timers>>

NextWindows ==
  \/ PollNextEpoch
  \/ CheckGatewayOrNothing

SpecWindows == Init /\ [][NextWindows]_vars

(***************************************************************************)
(* Dispatches that overlap: a dispatch runs up to its first await in one   *)
(* piece, and its channel call is made when the event loop resumes it,     *)
(* after other dispatches may have begun.                                  *)
(***************************************************************************)
DInterleaved ==
  << ResourceRequest("cpu", 85, 80),
     AlertRequest("critical", <<"Core service is DOWN", "Error: No response">>,
                  Some("service_health")),
     PerformanceRequest("error_rate", [current |-> 6, threshold |-> 5]),
     ObserverRequest("low_weight", [NoDetails EXCEPT !.value = Some(3), !.threshold = Some(5)]) >>

\* What the dispatches have done so far, for the properties: how many
\* began, whether one began while another of its key was suspended, and the
\* channel calls made, each with the time its dispatch began.
InterleavedRun ==
  IF run = None
  THEN [check |-> "interleaved", begun |-> 0, overlapped |-> FALSE, channel |-> <<>>]
  ELSE run

\* The synchronous part of a dispatch: everything up to the first await. A
\* dispatch that is to reach the channel is suspended there.
BeginDispatch ==
  \E i \in DOMAIN DInterleaved :
    LET w == Dispatch(W, now, DInterleaved[i])
        call == w.calls[Len(w.calls)]
        proceeds == call.outcome \in {"sent", "failed"}
    IN  /\ InterleavedRun.begun < MaxInterleaved
        /\ Commit(w)
        /\ monitors' = [monitors EXCEPT !.inFlight =
                          IF proceeds
                          THEN @ \cup {[n |-> InterleavedRun.begun + 1, ident |-> call.ident,
                                        begun |-> now]}
                          ELSE @]
        /\ run' = [InterleavedRun EXCEPT
                     !.begun = @ + 1,
                     !.overlapped = @ \/ \E p \in monitors.inFlight : p.ident = call.ident]
        /\ UNCHANGED <<now, resourceVars, observerVars, runtimeConfig, currentPreset,
                       channelUp, storeUp, timers>>

\* A suspended dispatch is resumed and makes its channel call.
CompleteSend ==
  \E p \in monitors.inFlight :
    /\ monitors' = [monitors EXCEPT !.inFlight = @ \ {p}]
    /\ run' = [InterleavedRun EXCEPT
                 !.channel = Append(@, [ident |-> p.ident, begun |-> p.begun, time |-> now])]
    /\ UNCHANGED <<now, telegram, db, lastSent, calls, resourceVars, observerVars,
                   runtimeConfig, currentPreset, channelUp, storeUp, timers>>

InterleaveTick == Advance(InterleaveHorizon)

NextInterleaved ==
  \/ BeginDispatch
  \/ CompleteSend
  \/ InterleaveTick

SpecInterleaved == Init /\ [][NextInterleaved]_vars

(***************************************************************************)
(* checkObserver as the event loop runs it: a run is suspended at each     *)
(* await that waits for the network (the status fetch, the epoch stats, a  *)
(* dispatch that calls the channel), and the interval timer starts the     *)
(* next run whether or not the previous one has returned.  The interval is *)
(* configured as one epoch length.                                         *)
(***************************************************************************)
ObserverStages == <<"epoch", "warn", "failed", "push", "weight", "finish", "done">>

\* The stage after the given one.
FollowingStage(pc) ==
  ObserverStages[(CHOOSE i \in DOMAIN ObserverStages : ObserverStages[i] = pc) + 1]

\* The requests of one stage of a run p, on the monitor's fields as they
\* are when the stage runs (s.last is this.lastObserverCheck, s.history is
\* this.observerSelectionHistory).
StageRequests(pc, p, s, c) ==
  LET status == p.status[1]
      hoursRemaining ==
        (IF Truthy(status.epochEndTimestamp) THEN status.epochEndTimestamp[1] - p.now ELSE 0) \div 3600
      recentHistory == LastN(s.history, NotSelectedEpochsThreshold)
  IN  CASE pc = "epoch" ->
             IF p.epochChanged
             THEN << AlertRequest("info",
                       formatEpochChangeMessage("ended", getEpochStats(c, p.previousEpoch[1], TRUE)[1]),
                       Some("epoch")),
                     AlertRequest("info",
                       formatEpochChangeMessage("started", getEpochStats(c, status.epochIndex, TRUE)[1]),
                       Some("epoch")) >>
             ELSE <<>>
        [] pc = "warn" ->
             IF Unsubmitted(status) /\ hoursRemaining < 12 /\ hoursRemaining > 0
             THEN <<AlertRequest("warning",
                      << "No observation report submitted!",
                         "Epoch: " \o ToString(status.epochIndex),
                         "Time remaining: " \o ToString(hoursRemaining) \o " hours" >>,
                      Some("observer_report"))>>
             ELSE <<>>
        [] pc = "failed" ->
             IF Unsubmitted(status) /\ hoursRemaining <= 0 /\ EpochDiffers(s.last, status)
             THEN <<ObserverRequest("report_failed",
                      [NoDetails EXCEPT !.epochIndex = Some(status.epochIndex),
                                        !.additional = Some("Epoch deadline has passed")])>>
             ELSE <<>>
        [] pc = "push" ->
             \* evaluated on the history after the push
             IF /\ Len(recentHistory) >= NotSelectedEpochsThreshold
                /\ \A i \in 1..Len(recentHistory) : ~recentHistory[i].selected
             THEN <<ObserverRequest("not_selected",
                      [NoDetails EXCEPT !.value = Some(NotSelectedEpochsThreshold),
                                        !.threshold = Some(NotSelectedEpochsThreshold),
                                        !.additional = Some(<<recentHistory[1].epochIndex,
                                                              recentHistory[Len(recentHistory)].epochIndex>>)])>>
             ELSE <<>>
        [] pc = "weight" ->
             IF status.observerWeight # None /\ status.observerWeight[1] < LowObserverWeightThreshold
             THEN <<ObserverRequest("low_weight",
                      [NoDetails EXCEPT !.value = status.observerWeight,
                                        !.threshold = Some(LowObserverWeightThreshold)])>>
             ELSE <<>>
        [] OTHER -> <<>>

\* One stage of a run at time t: the fields it assigns, then its awaited
\* dispatches.  The run is suspended after the stage when one of the
\* dispatches called the channel.
ObserverStage(pc, p, s, c, t) ==
  LET status == p.status[1]
      appends == pc = "push" /\ EpochDiffers(s.last, status)
      pushed == Append(s.history, [epochIndex |-> status.epochIndex,
                                   selected |-> status.isSelectedAsObserver, timestamp |-> p.now])
      history == IF ~appends THEN s.history
                 ELSE IF Len(pushed) > SelectionHistoryCap THEN Tail(pushed) ELSE pushed
      assigned == [s EXCEPT !.history = history,
                            !.last = IF pc = "finish"
                                     THEN Some([epochIndex |-> status.epochIndex,
                                                wasSelected |-> status.isSelectedAsObserver,
                                                hadReport |-> status.hasSubmittedReport # None
                                                              /\ status.hasSubmittedReport[1]])
                                     ELSE @]
      reqs == IF pc = "push" /\ ~appends THEN <<>> ELSE StageRequests(pc, p, assigned, c)
      w == DispatchAll(s.w, t, reqs)
  IN  [s |-> [assigned EXCEPT !.w = w],
       suspends |-> \E i \in (Len(s.w.calls) + 1)..Len(w.calls) : w.calls[i].outcome \in {"sent", "failed"}]

\* The run from stage pc to its next suspension, or to its return.
RECURSIVE RunFrom(_, _, _, _, _)
RunFrom(pc, p, s, c, t) ==
  IF pc = "done" THEN [s |-> s, pc |-> "done"]
  ELSE LET r == ObserverStage(pc, p, s, c, t)
       IN  IF r.suspends THEN [s |-> r.s, pc |-> FollowingStage(pc)]
           ELSE RunFrom(FollowingStage(pc), p, r.s, c, t)

OverlapRun ==
  IF run = None
  THEN [check |-> "overlap", begun |-> 0, fired |-> None, transitions |-> {}, overlapped |-> FALSE]
  ELSE run

\* setInterval(checkObserver, observerCheckInterval): the timer fires once
\* per interval and the run calls checkObserverStatus.
FireObserverTimer ==
  /\ OverlapRun.begun < MaxOverlapRuns
  /\ OverlapRun.fired # Some(now)
  /\ monitors' = [monitors EXCEPT !.observerRuns =
                    @ \cup {[id |-> OverlapRun.begun + 1, pc |-> "status", status |-> None,
                             now |-> now, epochChanged |-> FALSE, previousEpoch |-> None]}]
  /\ run' = [OverlapRun EXCEPT !.begun = @ + 1, !.fired = Some(now),
                               !.overlapped = @ \/ monitors.observerRuns # {}]
  /\ UNCHANGED <<now, telegram, db, lastSent, calls, resourceVars, observerVars,
                 runtimeConfig, currentPreset, channelUp, storeUp, timers>>

\* The awaited call of a suspended run returns, and the run goes on to its
\* next suspension or to its end.
ResumeObserverRun ==
  \E p \in monitors.observerRuns :
    LET status == checkObserverStatus(chain, TRUE, TRUE, None)
        previousEpoch == IF lastObserverCheck = None THEN None
                         ELSE Some(lastObserverCheck[1].epochIndex)
        fetched == [p EXCEPT !.status = Some(status), !.now = now,
                             !.previousEpoch = previousEpoch,
                             !.epochChanged = previousEpoch # None /\ status.epochIndex # previousEpoch[1]]
        q == IF p.pc = "status" THEN fetched ELSE p
        s == [w |-> W, history |-> observerSelectionHistory, last |-> lastObserverCheck]
        r == IF p.pc = "status" /\ q.epochChanged
             THEN [s |-> s, pc |-> "epoch"]
             ELSE RunFrom(IF p.pc = "status" THEN "warn" ELSE p.pc, q, s, chain, now)
    IN  /\ Commit(r.s.w)
        /\ observerSelectionHistory' = r.s.history
        /\ lastObserverCheck' = r.s.last
        /\ monitors' = [monitors EXCEPT !.observerRuns =
                          (@ \ {p}) \cup (IF r.pc = "done" THEN {} ELSE {[q EXCEPT !.pc = r.pc]})]
        /\ run' = [OverlapRun EXCEPT !.transitions =
                     @ \cup (IF r.pc = "done" /\ q.epochChanged
                             THEN {q.status[1].epochIndex} ELSE {})]
        /\ UNCHANGED <<now, resourceVars, chain, runtimeConfig, currentPreset,
                       channelUp, storeUp, timers>>

\* One interval passes; the chain stays in its epoch or, the epoch's end
\* reached, moves to the next, where the gateway is an observer of low
\* weight or is not selected.
OverlapTick ==
  /\ now + EpochLength <= StartTime + MaxOverlapTicks * EpochLength
  /\ now' = now + EpochLength
  /\ chain' \in {chain} \cup
       (IF now + EpochLength >= chain.endTimestamp
        THEN {[chain EXCEPT !.epochIndex = @ + 1, !.endTimestamp = @ + EpochLength,
                            !.selected = sel, !.submitted = FALSE,
                            !.weight = IF sel THEN 3 ELSE 7] : sel \in BOOLEAN}
        ELSE {})
  /\ UNCHANGED <<telegram, db, lastSent, calls, resourceVars, observerSelectionHistory,
                 lastObserverCheck, run, runtimeConfig, currentPreset, monitors,
                 channelUp, storeUp, timers>>

NextOverlap ==
  \/ FireObserverTimer
  \/ ResumeObserverRun
  \/ OverlapTick

SpecOverlap == Init /\ [][NextOverlap]_vars

(***************************************************************************)
(* The network monitor: the gateway registry and the ArNS records fetched  *)
(* on every check and compared with the previous snapshot, which is kept   *)
(* in memory and saved to the store, and loaded from the store when the    *)
(* monitor is constructed.  Both features are switched on.                 *)
(***************************************************************************)
\* The order the fetch lists the entries in.
AddressOrder == <<"gwA", "gwB">>
NameOrder == <<"ardrive", "permaweb">>

\* NetworkMonitor.loadFromDatabase: the stored snapshots, if any; the
\* initialized flags stay unset.
loadFromDatabase(store, up) ==
  [lastGatewaySnapshot |-> IF up THEN store.network_snapshots.gateway ELSE EmptyMap,
   lastArnsSnapshot |-> IF up THEN store.network_snapshots.arns ELSE EmptyMap,
   gatewayInitialized |-> FALSE, arnsInitialized |-> FALSE]

\* for (...) metricsDb.saveNetworkSnapshot(type, key, data): INSERT OR REPLACE
saveNetworkSnapshots(store, up, type, snapshot) ==
  IF ~up THEN store
  ELSE [store EXCEPT !.network_snapshots[type] =
          [k \in (DOMAIN @) \cup (DOMAIN snapshot) |->
             IF k \in DOMAIN snapshot THEN snapshot[k] ELSE @[k]]]

\* if (hadPreviousSnapshot && this.gatewayInitialized)
Detects(had, initialized) == had /\ initialized

\* NetworkMonitor.checkGatewayChanges; fetched is None when the fetch throws.
checkGatewayChanges(n, store, up, fetched) ==
  LET currentSnapshot == fetched[1]
      last == n.lastGatewaySnapshot
      differs(a) == \/ currentSnapshot[a].label # last[a].label
                    \/ currentSnapshot[a].fqdn # last[a].fqdn
                    \/ currentSnapshot[a].observerAddress # last[a].observerAddress
                    \/ currentSnapshot[a].status # last[a].status
      current(a) == a \in DOMAIN currentSnapshot /\ (a \notin DOMAIN last \/ differs(a))
      change(a) == IF a \notin DOMAIN last
                   THEN [type |-> "joined", address |-> a, statusTarget |-> None]
                   ELSE [type |-> "updated", address |-> a,
                         statusTarget |-> IF currentSnapshot[a].status # last[a].status
                                          THEN Some(currentSnapshot[a].status) ELSE None]
      gone(a) == a \in DOMAIN last /\ a \notin DOMAIN currentSnapshot
      left(a) == [type |-> "left", address |-> a, statusTarget |-> None]
      changed == SelectSeq(AddressOrder, current)
      removed == SelectSeq(AddressOrder, gone)
  IN  IF fetched = None THEN [n |-> n, changes |-> <<>>, store |-> store]
      ELSE [n |-> [n EXCEPT !.gatewayInitialized = TRUE, !.lastGatewaySnapshot = currentSnapshot],
            changes |-> IF Detects(DOMAIN last # {}, n.gatewayInitialized)
                        THEN [i \in 1..Len(changed) |-> change(changed[i])]
                             \o [i \in 1..Len(removed) |-> left(removed[i])]
                        ELSE <<>>,
            store |-> saveNetworkSnapshots(store, up, "gateway", currentSnapshot)]

\* NetworkMonitor.checkArnsChanges
checkArnsChanges(n, store, up, fetched) ==
  LET currentSnapshot == fetched[1]
      last == n.lastArnsSnapshot
      new(name) == name \in DOMAIN currentSnapshot /\ name \notin DOMAIN last
      purchase(name) == [type |-> IF currentSnapshot[name].type = "permabuy"
                                  THEN "permabuy" ELSE "lease",
                         name |-> name]
      bought == SelectSeq(NameOrder, new)
  IN  IF fetched = None THEN [n |-> n, changes |-> <<>>, store |-> store]
      ELSE [n |-> [n EXCEPT !.arnsInitialized = TRUE, !.lastArnsSnapshot = currentSnapshot],
            changes |-> IF Detects(DOMAIN last # {}, n.arnsInitialized)
                        THEN [i \in 1..Len(bought) |-> purchase(bought[i])]
                        ELSE <<>>,
            store |-> saveNetworkSnapshots(store, up, "arns", currentSnapshot)]

\* for (const change of changes) await this.telegram.send...ChangeAlert(change)
RECURSIVE SendChanges(_, _, _, _)
SendChanges(w, t, kind, changes) ==
  IF changes = <<>> \/ w.thrown THEN w
  ELSE SendChanges(IF kind = "gateway"
                   THEN sendGatewayChangeAlert(w, t, Head(changes))
                   ELSE sendArnsChangeAlert(w, t, Head(changes)),
                   t, kind, Tail(changes))

\* checkNetwork: the gateway check and its alerts, then the ArNS check and
\* its alerts; an alert that rejects ends the run.
checkNetwork(w, t, n, gateways, records) ==
  LET g == checkGatewayChanges(n, w.db, w.storeUp, gateways)
      wg == SendChanges([w EXCEPT !.db = g.store], t, "gateway", g.changes)
      a == checkArnsChanges(g.n, wg.db, wg.storeUp, records)
      wa == SendChanges([wg EXCEPT !.db = a.store], t, "arns", a.changes)
  IN  IF wg.thrown
      THEN [w |-> wg, n |-> g.n, gatewayChanges |-> g.changes, arnsChanges |-> <<>>]
      ELSE [w |-> wa, n |-> a.n, gatewayChanges |-> g.changes, arnsChanges |-> a.changes]

GatewayEntry(label, status) ==
  [label |-> label, fqdn |-> label \o ".io", observerAddress |-> "obs-" \o label, status |-> status]

\* What the registry answers: the fetch throws, lists no gateway, or lists
\* some of two gateways, the first of them joined or leaving.
DGateways ==
  { None, Some(EmptyMap),
    Some([a \in {"gwA"} |-> GatewayEntry("A", "joined")]),
    Some([a \in {"gwB"} |-> GatewayEntry("B", "joined")]),
    Some([a \in {"gwA", "gwB"} |-> IF a = "gwA" THEN GatewayEntry("A", "leaving")
                                   ELSE GatewayEntry("B", "joined")]) }

DRecords ==
  { None,
    Some([x \in {"ardrive"} |-> [type |-> "lease"]]),
    Some([x \in {"ardrive", "permaweb"} |-> [type |-> IF x = "ardrive" THEN "lease" ELSE "permabuy"]]) }

NetworkRun ==
  IF run = None
  THEN [check |-> "network", n |-> 0, gatewayPasses |-> 0, arnsPasses |-> 0]
  ELSE run

\* The network timer fires and the check runs; the next firing is one
\* interval later.
CheckNetworkOn(registry, names) ==
  \E gateways \in registry, records \in names :
    LET r == checkNetwork(W, now, monitors.network, gateways, records)
    IN  /\ NetworkRun.n < MaxNetworkChecks
        /\ Commit(r.w)
        /\ monitors' = [monitors EXCEPT !.network = r.n]
        /\ run' = [check |-> "network", n |-> NetworkRun.n + 1, time |-> now,
                   gatewayPasses |-> IF gateways = None THEN NetworkRun.gatewayPasses
                                     ELSE NetworkRun.gatewayPasses + 1,
                   arnsPasses |-> IF records = None \/ r.w.thrown THEN NetworkRun.arnsPasses
                                  ELSE NetworkRun.arnsPasses + 1,
                   gateways |-> gateways, records |-> records,
                   previous |-> monitors.network,
                   gatewayChanges |-> r.gatewayChanges, arnsChanges |-> r.arnsChanges]
        /\ now' = now + NetworkCheckInterval
        /\ UNCHANGED <<resourceVars, observerVars, runtimeConfig, currentPreset,
                       channelUp, storeUp, timers>>

CheckNetwork == CheckNetworkOn(DGateways, DRecords)

\* The bot is started again: new NetworkMonitor() loads the snapshots.
RestartNetworkMonitor ==
  /\ run # None /\ run.check = "network" /\ run.n < MaxNetworkChecks
  /\ run.gatewayPasses + run.arnsPasses > 0
  /\ monitors' = [monitors EXCEPT !.network = loadFromDatabase(db, storeUp)]
  /\ run' = [check |-> "network", n |-> run.n, gatewayPasses |-> 0, arnsPasses |-> 0]
  /\ UNCHANGED <<now, telegram, db, lastSent, calls, resourceVars, observerVars,
                 runtimeConfig, currentPreset, channelUp, storeUp, timers>>

NextNetwork ==
  \/ CheckNetwork
  \/ RestartNetworkMonitor

SpecNetwork == Init /\ [][NextNetwork]_vars

(***************************************************************************)
(* The ArNS resolution check: a timeout that every run arms again.         *)
(* arnsPending holds the timeouts that are armed and have not fired,       *)
(* arnsResolutionTimer the handle the bot keeps.  The random first delay  *)
(* is taken at the ends of its range (5 to 15 minutes), the delay of the   *)
(* next run at the middle of its range (50 to 70 minutes).                 *)
(***************************************************************************)
InitialArnsDelays == {5 * 60, 15 * 60}
NextArnsDelays == {60 * 60}

\* scheduleNextRun: this.arnsResolutionTimer = setTimeout(runCheck, delay)
scheduleNextRun(m, t, delay) ==
  LET id == IF m.arnsResolutionTimer = None THEN 1 ELSE m.arnsResolutionTimer[1] + 1
  IN  [m EXCEPT !.arnsResolutionTimer = Some(id),
                !.arnsPending = @ \cup {[id |-> id, due |-> t + delay]}]

\* runCheck: the path the run takes and the number of times it calls
\* scheduleNextRun; the return inside try is followed by the finally block.
runCheckPath(cfg, store, up, failures, w) ==
  IF ~cfg.monitorArnsResolution THEN [path |-> "disabled", schedules |-> 1]
  ELSE IF ~up THEN [path |-> "exception", schedules |-> 1]
  ELSE IF DOMAIN store.network_snapshots.arns = {} THEN [path |-> "noSnapshots", schedules |-> 2]
  ELSE IF w.thrown THEN [path |-> "exception", schedules |-> 1]
  ELSE IF failures THEN [path |-> "failed", schedules |-> 1]
  ELSE [path |-> "passed", schedules |-> 1]

\* The alert of a run that tested the sampled names.
runCheckRequests(cfg, store, up, failures) ==
  IF cfg.monitorArnsResolution /\ up /\ DOMAIN store.network_snapshots.arns # {} /\ failures
  THEN <<AlertRequest("warning", <<"ArNS resolution issues detected:", "HTTP 404">>,
                      Some("arns_resolution"))>>
  ELSE <<>>

RECURSIVE ScheduleTimes(_, _, _, _)
ScheduleTimes(m, t, delay, times) ==
  IF times = 0 THEN m ELSE ScheduleTimes(scheduleNextRun(m, t, delay), t, delay, times - 1)

\* startArnsResolutionMonitoring: the first timeout
StartArnsResolutionMonitoring ==
  \E delay \in InitialArnsDelays :
    /\ monitors.arnsResolutionTimer = None
    /\ monitors' = scheduleNextRun(monitors, now, delay)
    /\ UNCHANGED <<now, telegram, db, lastSent, calls, resourceVars, observerVars, run,
                   runtimeConfig, currentPreset, channelUp, storeUp, timers>>

\* A timeout fires, one that is due first, and runCheck runs.
RunArnsCheck ==
  \E timer \in monitors.arnsPending, failures \in BOOLEAN, delay \in NextArnsDelays :
    LET t == Max(now, timer.due)
        w == DispatchAll(W, t, runCheckRequests(runtimeConfig, db, storeUp, failures))
        r == runCheckPath(runtimeConfig, db, storeUp, failures, w)
        fired == [monitors EXCEPT !.arnsPending = @ \ {timer},
                                  !.arnsRuns = @ + 1, !.arnsPath = Some(r.path)]
    IN  /\ monitors.arnsRuns < MaxArnsRuns
        /\ \A other \in monitors.arnsPending : timer.due <= other.due
        /\ now' = t
        /\ Commit(w)
        /\ monitors' = ScheduleTimes(fired, t, delay, r.schedules)
        /\ UNCHANGED <<resourceVars, observerVars, run, runtimeConfig, currentPreset,
                       channelUp, storeUp, timers>>

\* The operator presses the ArNS resolution button of the features menu.
ToggleArnsResolution ==
  /\ runtimeConfig' = toggle(runtimeConfig, featureMap["arns_resolution"])
  /\ db' = saveToDatabase(db, storeUp, runtimeConfig', currentPreset)
  /\ UNCHANGED <<now, telegram, lastSent, calls, resourceVars, observerVars, run,
                 monitors, currentPreset, channelUp, storeUp, timers>>

\* The network check with the ArNS activity feature alone: it stores the
\* names it fetched.
CheckArnsActivity ==
  CheckNetworkOn({None}, {Some([x \in {"ardrive"} |-> [type |-> "lease"]])})

NextArnsResolution ==
  \/ StartArnsResolutionMonitoring
  \/ RunArnsCheck
  \/ ToggleArnsResolution
  \/ CheckArnsActivity
  \/ StoreChanges

SpecArnsResolution == Init /\ [][NextArnsResolution]_vars

(***************************************************************************)
(* The global mute menu: its four buttons, and the action that telegraf    *)
(* runs for a button's callback data.  Callback data are sequences of      *)
(* characters, so that the action's pattern is matched as written.         *)
(***************************************************************************)
Digits == {"0", "1", "2", "3", "4", "5", "6", "7", "8", "9"}

\* sendMuteMenu: Markup.button.callback(label, data)
MuteMenuButtons ==
  << [label |-> "1 hour", data |-> <<"m", "u", "t", "e", "_", "1", "h">>],
     [label |-> "6 hours", data |-> <<"m", "u", "t", "e", "_", "6", "h">>],
     [label |-> "24 hours", data |-> <<"m", "u", "t", "e", "_", "2", "4", "h">>],
     [label |-> "Unmute", data |-> <<"m", "u", "t", "e", "_", "u", "n", "m", "u", "t", "e">>] >>

\* The text of a sequence of characters.
RECURSIVE Text(_)
Text(chars) == IF chars = <<>> THEN "" ELSE Head(chars) \o Text(Tail(chars))

\* this.bot.action(/^mute_(\d+[mh])$/, ...): ctx.match[1], or None when the
\* data do not match and the action does not run.
MatchMuteAction(data) ==
  LET prefix == <<"m", "u", "t", "e", "_">>
      n == Len(data)
  IN  IF /\ n >= Len(prefix) + 2
         /\ SubSeq(data, 1, Len(prefix)) = prefix
         /\ \A i \in (Len(prefix) + 1)..(n - 1) : data[i] \in Digits
         /\ data[n] \in {"m", "h"}
      THEN Some(Text(SubSeq(data, Len(prefix) + 1, n)))
      ELSE None

\* The operator presses a button of the menu; the update runs the action
\* whose pattern matches, if there is one.
PressMuteMenuButton ==
  \E i \in DOMAIN MuteMenuButtons :
    LET button == MuteMenuButtons[i]
        match == MatchMuteAction(button.data)
    IN  /\ Commit(IF match = None THEN W ELSE setMute(W, now, match[1]))
        /\ run' = [check |-> "muteMenu", label |-> button.label, time |-> now,
                   handled |-> match # None, before |-> telegram]
        /\ UNCHANGED <<now, resourceVars, observerVars, runtimeConfig, currentPreset,
                       monitors, channelUp, storeUp, timers>>

MenuTick == Advance(MuteMenuHorizon)

NextMuteMenu ==
  \/ PressMuteMenuButton
  \/ MenuTick

SpecMuteMenu == Init /\ [][NextMuteMenu]_vars

(***************************************************************************)
(* Properties of the dispatcher and the mute registry.                     *)
(***************************************************************************)
Calls == {calls[i] : i \in 1..Len(calls)}

\* C1: a resource alert of a given type and threshold reaches the
\* notification channel exactly when no alert of that type and threshold
\* reached it during the preceding cooldown window, whatever the current
\* values are: two dispatches within the window give one channel call.
C1_ResourceCooldownPerThreshold ==
  \A c \in Calls :
    c.op = "sendResourceAlert" =>
      (c.outcome = "sent" <=>
         (c.prevSent = None \/ c.time - c.prevSent[1].time >= AlertCooldown))

C1_Witness ==
  \E c \in Calls :
    /\ c.op = "sendResourceAlert"
    /\ c.outcome = "cooldown"
    /\ c.prevSent # None
    /\ c.prevSent[1].value # c.value
    /\ c.time > c.prevSent[1].time

\* C2: while a global mute is in effect (muted and now < muteUntil) no
\* dispatch operation calls the notification channel.
C2_GlobalMuteSuppressesEveryPath ==
  \A c \in Calls : c.globalMuted => c.outcome # "sent"

\* C3: with no global mute, an alert whose category has an unexpired mute
\* is not sent, and an alert whose category has none is sent (once past
\* its cooldown), for every category a Mute button can set.
C3_CategoryMuteSuppressesItsCategory ==
  \A c \in Calls :
    ~c.globalMuted =>
      /\ c.tagMuted => c.outcome # "sent"
      /\ (~c.tagMuted /\ c.outcome # "cooldown") => c.outcome = "sent"

\* C4: a category mute whose expiry is not in the future is no mute: the
\* alert of that category, absent cooldown and global mute, is delivered,
\* and sendAlert leaves no expired entry in the map.
C4_ExpiredCategoryMuteIsNoMute ==
  \A c \in Calls :
    /\ (c.tagExpired /\ ~c.globalMuted /\ c.outcome # "cooldown") => c.outcome = "sent"
    /\ c.op = "sendAlert" => ExpiredCategories(telegram, c.time) = {}

C4_Witness ==
  \E c \in Calls :
    /\ c.op = "sendAlert"
    /\ c.tagExpired
    /\ c.outcome = "sent"
    /\ c.tag \notin DOMAIN telegram.categoryMutes

(***************************************************************************)
(* Properties of the resource check.                                       *)
(***************************************************************************)
CpuAlertRaised == \E c \in Calls : c.op = "sendResourceAlert" /\ c.kind = "cpu"

LastReadingsHigh(readings, n) ==
  /\ Len(readings) >= n
  /\ \A i \in (Len(readings) - n + 1)..Len(readings) :
       readings[i] # None /\ readings[i][1] >= CpuThreshold

\* C5: on a check of one-per-minute CPU samples the sustained-CPU alert is
\* raised if and only if the most recent cpuDurationMinutes samples are all
\* at or above cpuThreshold.
C5_CpuAlertIffLastSamplesHigh ==
  (run # None /\ run.check = "resources") =>
    (CpuAlertRaised <=> LastReadingsHigh(run.readings, CpuDurationMinutes))

\* The interval of the last check saw a counter go down.
CounterWentDown ==
  /\ run # None
  /\ run.check = "resources"
  /\ run.raw # None
  /\ (run.raw[1].errors < 0 \/ run.raw[1].requests < 0)

\* C6: when a later counter reading is smaller than the earlier one the
\* interval is discarded: no sample of that interval is in the smoothing
\* window, and no rate is computed from it.
C6_ResetIntervalDiscarded ==
  CounterWentDown =>
    /\ \A i \in 1..Len(errorRateHistory) : errorRateHistory[i].timestamp # run.time
    /\ run.aggregated = None

\* C7: for error deltas 5, 3, -2, 4 over request deltas of 100 the window
\* is empty after the -2 interval and the aggregate of the fourth interval
\* is 4 errors in 100 requests.
C7_WindowRestartsAfterReset ==
  (run # None /\ run.check = "resources") =>
    /\ run.deltas = <<[errors |-> 5, requests |-> 100], [errors |-> 3, requests |-> 100],
                      [errors |-> -2, requests |-> 100]>>
         => errorRateHistory = <<>>
    /\ run.deltas = <<[errors |-> 5, requests |-> 100], [errors |-> 3, requests |-> 100],
                      [errors |-> -2, requests |-> 100], [errors |-> 4, requests |-> 100]>>
         => run.aggregated = Some([errors |-> 4, requests |-> 100])

(***************************************************************************)
(* Properties of the observer check.                                       *)
(***************************************************************************)
ObserverRan == run # None /\ run.check = "observer"

InfoAlerts == SelectSeq(calls, LAMBDA c : c.op = "sendAlert" /\ c.kind = "info")

\* The last poll saw the epoch index one above the one the poll before saw.
EpochStepped ==
  /\ ObserverRan
  /\ run.prevEpoch # None
  /\ run.status.epochIndex = run.prevEpoch[1] + 1

\* C8: when the epoch index changes from N to N+1 across two consecutive
\* observer checks, exactly two informational alerts are produced, first
\* 'epoch N ended' and then 'epoch N+1 started'.
C8_EpochChangeProducesEndedThenStarted ==
  EpochStepped =>
    /\ Len(InfoAlerts) = 2
    /\ InfoAlerts[1].message[1] = "Epoch " \o ToString(run.prevEpoch[1]) \o " Ended"
    /\ InfoAlerts[2].message[1] = "Epoch " \o ToString(run.status.epochIndex) \o " Started"

\* The entries the last poll put into the selection history.
AppendedByRun ==
  {i \in 1..Len(observerSelectionHistory) : observerSelectionHistory[i].timestamp = run.time}

\* C9: a poll appends exactly one entry to the observer-selection history
\* when it is the first poll or sees another epoch index than the poll
\* before it, and appends nothing when it sees the same epoch index.
C9_OneHistoryEntryPerEpochChange ==
  ObserverRan =>
    /\ Cardinality(AppendedByRun) =
         (IF run.prevEpoch = None \/ run.prevEpoch # Some(run.status.epochIndex) THEN 1 ELSE 0)
    /\ \A i \in AppendedByRun :
         /\ i = Len(observerSelectionHistory)
         /\ observerSelectionHistory[i].epochIndex = run.status.epochIndex
         /\ observerSelectionHistory[i].selected = run.status.isSelectedAsObserver

C9_Witness ==
  /\ ObserverRan
  /\ run.prevEpoch = Some(run.status.epochIndex)
  /\ AppendedByRun = {}
  /\ Len(observerSelectionHistory) >= 2

\* C10: an epoch that was polled past its deadline while selected and
\* without a report has had its 'report failed' alert exactly once by the
\* time the chain has left that epoch, and never more than once.
C10_ReportFailedExactlyOnce ==
  ObserverRan =>
    \A e \in run.overdue :
      /\ Get(run.failed, e, 0) <= 1
      /\ e < chain.epochIndex => Get(run.failed, e, 0) = 1

\* C11: the 'report failed' alert reaches the channel only on a poll that
\* sees the gateway selected, no report submitted and the epoch's end
\* passed; never while time remains before the epoch's end.
C11_ReportFailedOnlyPastDeadline ==
  ObserverRan =>
    \A c \in Calls :
      (c.op = "sendObserverAlert" /\ c.kind = "report_failed" /\ c.outcome = "sent") =>
        Unsubmitted(run.status) /\ PastDeadline(run.status, run.time)

\* C12: an epoch polled while selected, without a report and with time
\* remaining strictly between 0 and 12 hours has had the 'no observation
\* report submitted' warning exactly once: at the first such poll, and not
\* again on later polls of the epoch.
C12_ReportWarningOnce ==
  ObserverRan =>
    \A e \in run.due : Get(run.warned, e, 0) = 1

\* C13: every dispatch that passes its cooldown check appends to alert
\* history, whether it is then sent or suppressed by a mute, on every
\* dispatch path.
C13_PastCooldownIsRecorded ==
  \A c \in Calls : c.outcome # "cooldown" => c.recorded

\* C14: a dispatch suppressed by cooldown leaves alert history and the
\* last-alert timestamps unchanged and does not call the channel.
C14_CooldownLeavesNoTrace ==
  \A c \in Calls :
    c.outcome = "cooldown" => (~c.recorded /\ ~c.stamped)

C14_Witness ==
  \E c \in Calls :
    /\ c.op = "sendAlert"
    /\ c.outcome = "cooldown"
    /\ c.historyBefore # <<>>
    /\ c.prevSent # None
    /\ c.time > c.prevSent[1].time
    /\ telegram.alertHistory = c.historyBefore
    /\ telegram.lastAlertTime = c.stampsBefore

\* C15: in every state the mutes a restart would restore from the store
\* are the mutes in memory: every mute, unmute, category mute, category
\* unmute, unmute-all and expiry sweep has persisted what it changed.
C15_PersistedMutesEqualMemory ==
  /\ Constructed(db).isMuted = telegram.isMuted
  /\ Constructed(db).muteUntil = telegram.muteUntil
  /\ Constructed(db).categoryMutes = telegram.categoryMutes

\* A sendAlert at or after the hour swept the expired global mute and an
\* expired category mute.
C15_Witness ==
  /\ now > StartTime
  /\ db.mute_state = Some([isMuted |-> FALSE, muteUntil |-> None])
  /\ db.category_mutes = Some(EmptyMap)
  /\ \E c \in Calls : c.op = "sendAlert" /\ c.tagExpired /\ c.outcome = "sent"
                        /\ c.time = now

\* C16: an alert record the dispatcher created is in the alert history
\* shown to the operator in every later state, a restart in between or
\* not.
C16_AlertRecordSurvivesRestart ==
  \A k \in DOMAIN lastSent :
    k[1] \in DSeverities =>
      \E i \in 1..Len(AlertHistoryShown(telegram, db)) :
        /\ AlertHistoryShown(telegram, db)[i].timestamp = lastSent[k][1].time
        /\ AlertHistoryShown(telegram, db)[i].message = k[2]

\* C17: a cycle in which the error or the request counter is unavailable
\* skips the error-rate rule, and a cycle computes its deltas only against
\* readings the cycle before it actually had: a missing reading is never
\* taken as zero.
C17_MissingCounterNeverZero ==
  (run # None /\ run.check = "resources") =>
    /\ (run.metrics.arnsErrors = None \/ run.metrics.httpRequestsTotal = None) =>
         (run.raw = None /\ run.aggregated = None)
    /\ run.raw # None =>
         /\ run.previous # None
         /\ run.previous[1].arnsErrors # None
         /\ run.previous[1].httpRequestsTotal # None

\* C18: a poll whose epoch fetch failed raises no epoch-transition alert
\* and appends nothing to the selection history, and a successful poll
\* that sees the epoch the last successful poll saw does neither: no
\* default stands in for the epoch index that was unavailable.
C18_FailedFetchIsNoEpochChange ==
  ObserverRan =>
    /\ FetchFailed(run.status) => (InfoAlerts = <<>> /\ AppendedByRun = {})
    /\ (~FetchFailed(run.status) /\ run.prevGood = Some(run.status.epochIndex)) =>
         (InfoAlerts = <<>> /\ AppendedByRun = {})

\* C19: on every dispatch path, a call that reaches the notification
\* channel comes no sooner than the configured alert cooldown after the
\* previous channel call of the same dedup key.
C19_OneCooldownForEveryPath ==
  \A c \in Calls :
    (c.outcome = "sent" /\ c.prevSent # None) =>
      c.time - c.prevSent[1].time >= AlertCooldown

\* The last handler run dispatched an alert of the given type on the given path.
Raised(op, type) ==
  \E c \in Calls : c.op = op /\ c.kind = type

\* C20: a threshold changed at runtime is the one the next evaluation
\* compares against: after a resource check, the memory, disk,
\* response-time, block-sync and cache-hit-rate rules have raised their
\* alert exactly when the reading crosses the threshold the runtime
\* configuration held when the check ran, and after a health check the
\* latency rule has raised its alert exactly when the response time
\* exceeded the runtime latency threshold of that moment.
C20_RuntimeThresholdIsCompared ==
  /\ (run # None /\ run.check = "resources" /\ run.metrics.memoryUsagePercent # None) =>
       /\ Raised("sendResourceAlert", "memory")
             <=> run.metrics.memoryUsagePercent[1] >= run.config.memoryThreshold
       /\ Raised("sendResourceAlert", "disk")
             <=> run.metrics.diskUsagePercent[1] >= run.config.diskThreshold
       /\ Raised("sendResourceAlert", "response_time")
             <=> run.metrics.averageResponseTimeMs[1] >= run.config.responseTimeThreshold
       /\ Raised("sendPerformanceAlert", "block_sync")
             <=> run.metrics.heightDifference[1] > run.config.blockSyncLagThreshold
       /\ Raised("sendPerformanceAlert", "arns_cache")
             <=> run.metrics.arnsCacheHitRate[1] < run.config.arnsCacheHitRateThreshold
  /\ (run # None /\ run.check = "health") =>
       (Raised("sendResourceAlert", "latency")
          <=> run.responseTime > run.config.latencyThreshold)

\* C21: an alert's severity is critical exactly when its value is at least
\* 1.2 times its threshold and warning otherwise, for the block-sync lag
\* alert as for the CPU, memory, disk and response-time alerts.
C21_SeverityEscalatesUniformly ==
  \A c \in Calls :
    (\/ c.op = "sendResourceAlert"
     \/ (c.op = "sendPerformanceAlert" /\ c.kind = "block_sync")) =>
      /\ c.severity = "critical" <=> c.value * 10 >= c.threshold * 12
      /\ c.severity = "warning" <=> c.value * 10 < c.threshold * 12

\* C22: an alert dispatched with no category (its mute key is then its own
\* type) is not sent while the category mute keyed by that type is
\* unexpired.
C22_UncategorisedMutedByType ==
  \A c \in Calls :
    (c.op = "sendAlert" /\ c.tag = c.kind /\ c.tagMuted) => c.outcome # "sent"

\* C23: when the notification channel send fails, the dispatch completes
\* and makes no second attempt for the same alert, the alert has its entry
\* in the alert history, and the alerts the same run raises after it are
\* still dispatched.
C23_FailedSendIsRecordedNotRetried ==
  /\ \A i \in 1..Len(calls) :
       calls[i].outcome = "failed" =>
         /\ calls[i].recorded
         /\ \A j \in 1..Len(calls) : calls[j].ident = calls[i].ident => j = i
  /\ (run # None /\ run.check = "resources" /\ (\E c \in Calls : c.time = run.time)
        /\ run.metrics.diskUsagePercent # None
        /\ run.metrics.diskUsagePercent[1] >= DiskThreshold) =>
       (Raised("sendResourceAlert", "memory") /\ Raised("sendResourceAlert", "disk"))

\* C24: while writes to the store fail, a mute, unmute, category mute,
\* category unmute or expiry sweep is a no-op: no step taken with the store
\* down changes the global mute or the category mutes held in memory.
C24_FailedWriteLeavesMutesAlone ==
  [][~storeUp =>
       /\ telegram'.isMuted = telegram.isMuted
       /\ telegram'.muteUntil = telegram.muteUntil
       /\ telegram'.categoryMutes = telegram.categoryMutes]_vars

\* C25: after stop() no monitoring timer remains armed and no check or
\* report run starts, the start-up delays and the timers re-armed by a run
\* in flight included.
C25_StopLeavesNothingArmed ==
  timers.stopped =>
    /\ Pending(timers) = {}
    /\ ~timers.observerCheckTimer
    /\ ~timers.metricsRecordingTimer
    /\ ~timers.lateRun

\* C26: after each daily or weekly report run, sent or failed, exactly one
\* timeout is armed for that report, and it is armed for the next
\* wall-clock occurrence of the configured time (and weekday): strictly
\* after the moment the run ended, and no later than one period after it,
\* so an occurrence that has already passed is skipped.
C26_ReportRearmsNextOccurrence ==
  timers.lastReport # None =>
    LET report == timers.lastReport[1]
        daily == report.kind = "daily"
    IN  /\ Cardinality(report.armed) = 1
        /\ \A next \in report.armed :
             /\ next > report.completed
             /\ next - report.completed <= (IF daily THEN OneDay ELSE OneWeek)
             /\ next % OneDay = (IF daily THEN DailySummaryTime ELSE WeeklySummaryTime)
             /\ ~daily => GetDay(next) = WeeklySummaryDay

\* A weekly report that failed and took a minute has re-armed its timeout,
\* after daily reports did the same.
C26_Witness ==
  /\ timers.lastReport # None
  /\ timers.lastReport[1].kind = "weekly"
  /\ ~timers.lastReport[1].ok
  /\ timers.lastReport[1].completed > timers.lastReport[1].begun
  /\ timers.pendingWeekly = timers.lastReport[1].armed
  /\ timers.pendingDaily # {}

\* C27: a stored sample or alert record is removed only by the weekly
\* rollup, and the rollup removes only records older than seven days: in
\* every step, a record that is gone afterwards was older than the cutoff
\* and the step is the weekly report run completing.
C27_OnlyWeeklyRollupRemoves ==
  [][/\ \A m \in db.metrics :
          m \notin db'.metrics =>
            /\ timers.weeklyRunning # None /\ timers'.weeklyRunning = None
            /\ m.timestamp < now - OneWeek
     /\ Len(db'.alerts) < Len(db.alerts) =>
          (timers.weeklyRunning # None /\ timers'.weeklyRunning = None)]_vars

\* A weekly rollup has removed a sample older than seven days and kept a
\* younger one.
C27_Witness ==
  /\ timers.lastReport # None
  /\ timers.lastReport[1].kind = "weekly"
  /\ timers.lastReport[1].removed # {}
  /\ \E m \in db.metrics : m.timestamp < timers.lastReport[1].completed

\* C28: dailyAverages(days) returns one aggregate per calendar day, each
\* computed from exactly the stored samples whose timestamps fall within
\* that calendar day, so every stored sample of a covered day is in that
\* day's aggregate.
C28_AggregatePerCalendarDay ==
  (run # None /\ run.check = "dailyAverages") =>
    /\ \A j, k \in DOMAIN run.averages :
         run.averages[j].day = run.averages[k].day => j = k
    /\ \A k \in DOMAIN run.averages :
         \A m \in run.stored :
           m \in run.averages[k].rows <=> m.timestamp \div OneDay = run.averages[k].day

\* The keys a preset overwrites, and the keys outside every preset.
PresetKeys == DOMAIN PRESETS["balanced"]

\* C29: applying a preset overwrites the same fixed subset of keys for
\* every preset in one step, leaves every other key (the feature toggles
\* outside the subset and the check intervals) unchanged, and persists the
\* resulting configuration together with the preset name.
C29_PresetFrame ==
  [][HandlePresetChange =>
       /\ \A preset \in ConfigPreset : DOMAIN PRESETS[preset] = PresetKeys
       /\ {"monitorGatewayRegistry", "monitorArnsActivity", "monitorSslCertificate",
           "enableDailySummary", "enableWeeklySummary", "healthCheckInterval",
           "observerCheckInterval", "resourceCheckInterval"} \cap PresetKeys = {}
       /\ currentPreset' \in ConfigPreset
       /\ \A key \in PresetKeys : runtimeConfig'[key] = PRESETS[currentPreset'][key]
       /\ \A key \in DOMAIN runtimeConfig \ PresetKeys :
            runtimeConfig'[key] = runtimeConfig[key]
       /\ DOMAIN runtimeConfig' = DOMAIN runtimeConfig
       /\ db'.runtime_config = Some([config |-> runtimeConfig', preset |-> currentPreset'])
  ]_vars

\* The strict preset has been applied and saved over a configuration whose
\* registry monitoring had been switched on and whose daily report had been
\* switched off: both toggles are still as the operator left them.
C29_Witness ==
  /\ currentPreset = "strict"
  /\ \A key \in PresetKeys : runtimeConfig[key] = PRESETS["strict"][key]
  /\ runtimeConfig.monitorGatewayRegistry
  /\ ~runtimeConfig.enableDailySummary
  /\ db.runtime_config = Some([config |-> runtimeConfig, preset |-> "strict"])

\* The samples of the end-to-end example, one per minute from the first
\* check on, and the cpu alerts the last check sent.
ExampleCpuSamples == <<Some(85), Some(86), Some(84), Some(90), Some(91)>>

CpuAlertsSent ==
  {i \in DOMAIN calls : /\ calls[i].op = "sendResourceAlert"
                        /\ calls[i].kind = "cpu"
                        /\ calls[i].outcome = "sent"}

\* C30: with cpuThreshold 80 and cpuDurationMinutes 5, the samples 85, 86,
\* 84, 90, 91 taken at 0 s, 60 s, 120 s, 180 s and 240 s raise no CPU alert
\* on the first four checks and exactly one alert on the check at 240 s.
C30_FifthSampleRaisesOneAlert ==
  (/\ CpuThreshold = 80 /\ CpuDurationMinutes = 5
   /\ run # None /\ run.check = "resources"
   /\ Len(run.readings) <= Len(ExampleCpuSamples)
   /\ run.readings = SubSeq(ExampleCpuSamples, 1, Len(run.readings))
   /\ run.time = StartTime + (Len(run.readings) - 1) * 60) =>
    /\ Cardinality(CpuAlertsSent) = (IF Len(run.readings) = 5 THEN 1 ELSE 0)
    /\ \A i \in DOMAIN calls : calls[i].kind = "cpu" => i \in CpuAlertsSent

\* The check at 240 s has run on the fifth sample of the example and has
\* sent its alert for the reading of 91.
C30_Witness ==
  /\ run # None /\ run.check = "resources"
  /\ run.readings = ExampleCpuSamples
  /\ run.time = StartTime + 240
  /\ \E i \in CpuAlertsSent : calls[i].value = 91 /\ calls[i].threshold = 80

\* The SSL alerts the last check dispatched with a given severity.
SslAlertRaised(severity) ==
  \E c \in Calls : c.op = "sendAlert" /\ c.tag = "ssl_certificate" /\ c.severity = severity

\* C31: a check that reads a valid certificate, with nothing reported
\* before, raises a critical alert when the certificate expires within 7
\* days and a warning alert when it expires within 30 days.
C31_SslSeverityByDaysLeft ==
  (run # None /\ run.check = "ssl" /\ run.cert.error = None /\ run.before = None) =>
    /\ run.cert.daysRemaining <= 7 => SslAlertRaised("critical")
    /\ (run.cert.daysRemaining > 7 /\ run.cert.daysRemaining <= 30) => SslAlertRaised("warning")

\* The last check dispatched a status alert of a severity for a service.
StatusAlertRaised(service, severity, title) ==
  \E c \in Calls : /\ c.op = "sendAlert" /\ c.severity = severity
                   /\ c.message[1] = ServiceName(service) \o title

\* The service was healthy, or not, at the completed check before the last.
WasHealthy(service, healthy) ==
  run.lastCompleted # None /\ run.lastCompleted[1][service].isHealthy = healthy

\* C32: a completed health check dispatches the critical DOWN alert of a
\* service exactly when the service was healthy at the completed check
\* before it and is unhealthy now, and the info back-UP alert exactly on the
\* reverse change; a check that sees no change, and the first check after
\* start, dispatch neither.
C32_StatusAlertOnChangeOnly ==
  (run # None /\ run.check = "checkHealth" /\ run.completed) =>
    \A service \in Services :
      /\ StatusAlertRaised(service, "critical", " service is DOWN")
           <=> (WasHealthy(service, TRUE) /\ ~run.health[service].isHealthy)
      /\ StatusAlertRaised(service, "info", " service is back UP")
           <=> (WasHealthy(service, FALSE) /\ run.health[service].isHealthy)
      /\ \A c \in Calls : c.op = "sendAlert" =>
           c.message[1] \in { ServiceName(s) \o t :
                                s \in Services, t \in {" service is DOWN", " service is back UP"} }

\* The core went down between two checks and came back at the next, while
\* the observer stayed up: the last check dispatched the back-UP alert of
\* the core alone.
C32_Witness ==
  /\ run # None /\ run.check = "checkHealth" /\ run.completed
  /\ run.time >= StartTime + 2 * HealthCheckInterval
  /\ WasHealthy("core", FALSE) /\ WasHealthy("observer", TRUE)
  /\ run.health.core.isHealthy /\ run.health.observer.isHealthy
  /\ StatusAlertRaised("core", "info", " service is back UP")
  /\ ~StatusAlertRaised("observer", "info", " service is back UP")

\* The intervals with traffic that ended within the ten minutes before the
\* last check, the check's own interval included: the i-th interval ends at
\* the check one minute after the i-th check.
RecentIntervals ==
  {i \in DOMAIN run.deltas :
     /\ StartTime + i * ResourceCheckInterval >= run.time - TenMinutes
     /\ run.deltas[i].requests > 0}

RECURSIVE SumOver(_, _, _)
SumOver(deltas, indices, field) ==
  IF indices = {} THEN 0
  ELSE LET i == CHOOSE x \in indices : TRUE
       IN  deltas[i][field] + SumOver(deltas, indices \ {i}, field)

ErrorRateAlertRaised ==
  \E c \in Calls : c.op = "sendPerformanceAlert" /\ c.kind = "error_rate"

\* C33: an error-rate alert is raised only if, over the samples of the last
\* ten minutes, the summed requests are at least errorRateMinRequests and
\* the summed errors are more than errorRateThreshold percent of the summed
\* requests; and the window holds a sample of an interval only when the
\* interval's request delta was above zero.
C33_ErrorRateOverWindow ==
  (run # None /\ run.check = "resources") =>
    /\ ErrorRateAlertRaised =>
         /\ SumOver(run.deltas, RecentIntervals, "requests") >= ErrorRateMinRequests
         /\ SumOver(run.deltas, RecentIntervals, "errors") * 100
              > ErrorRateThreshold * SumOver(run.deltas, RecentIntervals, "requests")
    /\ \A k \in DOMAIN errorRateHistory :
         /\ errorRateHistory[k].requests > 0
         /\ \E i \in DOMAIN run.deltas :
              /\ run.deltas[i].requests > 0
              /\ errorRateHistory[k].timestamp = StartTime + i * ResourceCheckInterval

\* An alert raised on the strength of two samples, after an older busy
\* interval had left the window.
C33_Witness ==
  /\ run # None /\ run.check = "resources"
  /\ ErrorRateAlertRaised
  /\ Cardinality(RecentIntervals) >= 2
  /\ \E i \in DOMAIN run.deltas :
       run.deltas[i].requests > 0 /\ i \notin RecentIntervals

NotSelectedCalls ==
  {i \in DOMAIN calls : calls[i].op = "sendObserverAlert" /\ calls[i].kind = "not_selected"}

\* The last notSelectedEpochsThreshold entries of the selection history
\* exist and are all not-selected.
NotSelectedStreak ==
  /\ Len(observerSelectionHistory) >= NotSelectedEpochsThreshold
  /\ \A i \in (Len(observerSelectionHistory) - NotSelectedEpochsThreshold + 1)
                ..Len(observerSelectionHistory) :
       ~observerSelectionHistory[i].selected

\* C34: the 'not selected' alert is raised on a poll if and only if that
\* poll appended to the selection history and the last
\* notSelectedEpochsThreshold entries, at least that many existing, are all
\* not-selected; it is raised once and labelled with the first and the
\* last epoch index of that run of entries; a poll that appended nothing
\* never raises it.
C34_NotSelectedOnAppendedStreak ==
  ObserverRan =>
    /\ NotSelectedCalls # {} <=> (AppendedByRun # {} /\ NotSelectedStreak)
    /\ Cardinality(NotSelectedCalls) <= 1
    /\ \A i \in NotSelectedCalls :
         calls[i].message.additional =
           Some(<<observerSelectionHistory[Len(observerSelectionHistory)
                                           - NotSelectedEpochsThreshold + 1].epochIndex,
                  observerSelectionHistory[Len(observerSelectionHistory)].epochIndex>>)

\* The alert was raised on a history longer than the streak, whose oldest
\* entry is a selected epoch, and named the epochs of the streak.
C34_Witness ==
  /\ ObserverRan
  /\ NotSelectedCalls # {}
  /\ Len(observerSelectionHistory) > NotSelectedEpochsThreshold
  /\ observerSelectionHistory[1].selected

\* C35: no sliding window grows without bound: after every push the CPU
\* window and the error-rate window hold no sample older than ten minutes,
\* and the observer-selection history never holds more than twenty entries.
C35_WindowsStayBounded ==
  /\ Len(observerSelectionHistory) <= SelectionHistoryCap
  /\ (run # None /\ run.check = "windows") =>
       /\ run.pushedCpu =>
            /\ cpuHistory # <<>>
            /\ \A i \in DOMAIN cpuHistory : cpuHistory[i].timestamp >= run.time - TenMinutes
       /\ run.pushedError =>
            /\ errorRateHistory # <<>>
            /\ \A i \in DOMAIN errorRateHistory :
                 errorRateHistory[i].timestamp >= run.time - TenMinutes

\* The selection history is full and has dropped its oldest entries, and
\* the last resource check pushed into both resource windows, which had
\* been holding samples older than ten minutes since the gateway stopped
\* answering.
C35_Witness ==
  /\ Len(observerSelectionHistory) = SelectionHistoryCap
  /\ observerSelectionHistory[1].epochIndex > 0
  /\ run # None /\ run.check = "windows"
  /\ run.pushedCpu /\ run.pushedError
  /\ \E i \in DOMAIN run.cpuBefore : run.cpuBefore[i].timestamp < run.time - TenMinutes
  /\ \E i \in DOMAIN run.errorBefore : run.errorBefore[i].timestamp < run.time - TenMinutes

\* C36: the cooldown check and the update of the key's last-sent timestamp
\* happen with no suspension between them, so of the dispatches of one
\* dedup key that began within one cooldown window, interleaved in any
\* way, at most one makes a notification-channel call.
C36_InterleavedDispatchesSendOnce ==
  (run # None /\ run.check = "interleaved") =>
    LET sends == {[ident |-> run.channel[i].ident, begun |-> run.channel[i].begun, n |-> i] :
                    i \in DOMAIN run.channel}
                 \cup {[ident |-> p.ident, begun |-> p.begun, n |-> 0 - p.n] :
                         p \in monitors.inFlight}
    IN  \A a, b \in sends :
          (a # b /\ a.ident = b.ident) =>
            (a.begun - b.begun >= AlertCooldown \/ b.begun - a.begun >= AlertCooldown)

\* A dispatch began while another of the same key was suspended at its
\* channel call; both have run to their end and the channel was called for
\* that key once.
C36_Witness ==
  /\ run # None /\ run.check = "interleaved"
  /\ run.overlapped
  /\ monitors.inFlight = {}
  /\ Len(run.channel) = 1
  /\ run.begun >= 2
  /\ \A c \in Calls : c.ident = run.channel[1].ident

\* C37: even when runs of the observer check overlap, an epoch that a
\* completed run found to be a new one has exactly one entry in the
\* selection history (one append, one evaluation of the 'not selected'
\* streak).
C37_OneAppendPerEpoch ==
  (run # None /\ run.check = "overlap") =>
    \A e \in run.transitions :
      Cardinality({i \in DOMAIN observerSelectionHistory :
                     observerSelectionHistory[i].epochIndex = e}) = 1

NetworkChecked == run # None /\ run.check = "network" /\ "gateways" \in DOMAIN run

ReportedAs(type) ==
  {run.gatewayChanges[i].address : i \in {j \in DOMAIN run.gatewayChanges :
                                            run.gatewayChanges[j].type = type}}

\* C39: the first gateway and ArNS passes after a (re)start report no
\* change; from the second gateway pass on, the gateways reported as
\* joined are those of the fetch that the previous snapshot lacks, and the
\* gateways reported as left are those of the previous snapshot that the
\* fetch lacks.
C39_SilentFirstCheckThenDiff ==
  NetworkChecked =>
    /\ (run.gateways # None /\ run.gatewayPasses = 1) => run.gatewayChanges = <<>>
    /\ (run.records # None /\ run.arnsPasses = 1) => run.arnsChanges = <<>>
    /\ (run.gateways # None /\ run.gatewayPasses >= 2) =>
         /\ ReportedAs("joined") = (DOMAIN run.gateways[1]) \ (DOMAIN run.previous.lastGatewaySnapshot)
         /\ ReportedAs("left") = (DOMAIN run.previous.lastGatewaySnapshot) \ (DOMAIN run.gateways[1])

\* C38: at any time at most one timeout of the ArNS resolution check is
\* armed; every run of the check arms exactly one.
C38_OneArnsTimerPending ==
  Cardinality(monitors.arnsPending) <= 1

\* C40: after a press of a button of the global mute menu the mute state
\* is the one the button's label names: muted until one, six or twenty-four
\* hours after the press, or not muted after 'Unmute'.
C40_MuteMenuButtonsAsLabelled ==
  (run # None /\ run.check = "muteMenu") =>
    /\ run.label = "1 hour" =>
         telegram.isMuted /\ telegram.muteUntil = Some(run.time + 3600)
    /\ run.label = "6 hours" =>
         telegram.isMuted /\ telegram.muteUntil = Some(run.time + 6 * 3600)
    /\ run.label = "24 hours" =>
         telegram.isMuted /\ telegram.muteUntil = Some(run.time + 24 * 3600)
    /\ run.label = "Unmute" =>
         ~telegram.isMuted /\ telegram.muteUntil = None

\* The same for the three duration buttons alone.
DurationButtonsAsLabelled ==
  (run # None /\ run.check = "muteMenu" /\ run.label # "Unmute") =>
    C40_MuteMenuButtonsAsLabelled

====
